---- MODULE Spec2Model ----
(***************************************************************************)
(* A model of rlua's src/lua.rs: the Lua instance (root and ephemeral),    *)
(* the interpreter stack and registry it drives through the C API, owned   *)
(* references (LuaRef), durable registry keys (RegistryKey), scopes and    *)
(* the callback invocation protocol.                                       *)
(***************************************************************************)
EXTENDS Integers, Sequences, FiniteSets, TLC

VARIABLES
    L,        \* per root: the interpreter state (stack, registry, heap)
    extra,    \* per root: ExtraData (registered_userdata, registry_unref_list)
    refs,     \* the LuaRef handles the host holds
    keys,     \* the RegistryKey handles the host holds
    last,     \* the last completed public operation and its outcome
    scope,    \* the Scope of Lua::scope, its body and its drop
    call,     \* the interpreter call chain of a running host call
    threads,  \* the host threads dropping a RegistryKey, and the sweep of
              \* expire_registry_values, each at its position
    budget    \* the stack use of the operation in progress: its position,
              \* the slots it holds and the slots check_stack has reserved

vars == <<L, extra, refs, keys, last, scope, call, threads, budget>>

----------------------------------------------------------------------------
\* Bounds of the model

\* Longest registry array: slots 1 and 2 are the interpreter's own
MaxReg == 5
\* Most heap objects per root
MaxObjs == 14
\* Longest iterator handed to create_table_from
MaxCont == 2
\* Most LuaRef handles the host holds at once
MaxRefs == 2
\* Most calls the host program makes
MaxOps == 3
\* Most calls the host program makes on RegistryKeys
MaxKeyOps == 5
\* Deepest nesting of the tables the host builds with create_table_from
MaxNest == 2
\* Most RegistryKeys the host holds at once
MaxKeys == 2
\* Most ids waiting in a pending-release list
MaxPending == 2
\* Most items registered through one Scope
MaxScoped == 2
\* Most frames of interpreter code around one call of a function
MaxFrames == 2
\* Most entries of host closures in progress at once
MaxDepth == 2
\* Most calls the host program makes around a Scope
MaxScopeOps == 5
\* Most calls the host program makes on functions
MaxCallOps == 3
\* Most calls the host program makes before it drops the root
MaxTeardownOps == 3
\* Most calls of eval the host program makes
MaxEvalOps == 2
\* Most calls the host program makes while slots are released on every path
MaxReleaseOps == 5
\* Most RegistryKeys made, and most sweeps of expire_registry_values, while
\* other threads drop keys
MaxThreadKeys == 3
MaxSweeps == 2
\* Most operations whose stack use is followed
MaxBudgetOps == 2
\* arguments of a call whose argument collection is followed, and the
\* operations of the program that makes such calls
MaxArgs == 3
MaxArgOps == 3
\* operations of the program that exposes host types
MaxUserdataOps == 3
\* operations of the program that indexes userdata
MaxIndexOps == 3
MaxStorageOps == 4
MaxPinnedOps == 5
MaxBorrowOps == 4

Roots == {1, 2}
\* The host types exposed as userdata (TypeId)
TypeIds == {1, 2}
\* Two more host types, which declare the same overloads and whose HashMaps
\* enumerate them in opposite orders
IndexTypes == {3, 4}
HostTypes == TypeIds \cup IndexTypes

----------------------------------------------------------------------------
\* Interpreter values (what a stack slot, a registry slot or a table holds)

LUA_REFNIL == -1
LUA_RIDX_GLOBALS == 2

Nil == [ty |-> "nil", v |-> 0]
Boolean(b) == [ty |-> "boolean", v |-> IF b THEN 1 ELSE 0]
Integer(i) == [ty |-> "integer", v |-> i]
Number(n) == [ty |-> "number", v |-> n]
LuaStr(s) == [ty |-> "string", v |-> s]
LightUserData(p) == [ty |-> "lightuserdata", v |-> p]
CFunction(c) == [ty |-> "cfunction", v |-> c]
ObjVal(kind, id) == [ty |-> kind, v |-> id]

\* Strings and C functions are values by their index in these tables
StrTab == <<"x", "7", "pcall", "xpcall", "__gc", "__metatable", "__index",
            "get", "__add", "syntax error">>
Str(s) == LuaStr(CHOOSE i \in 1..Len(StrTab) : StrTab[i] = s)

CFnTab == <<"luaB_pcall", "luaB_xpcall", "safe_pcall", "safe_xpcall",
            "userdata_destructor">>
CFn(c) == CFunction(CHOOSE i \in 1..Len(CFnTab) : CFnTab[i] = c)

\* Numbers: Integer(i) is the integer i, Number(h) the float h/2.  The
\* decimal string of the integer i is the string of index 100 + i, that of
\* the float h/2 the string of index 200 + h.
IsIntString(val) == val.ty = "string" /\ val.v >= 100 /\ val.v < 200
IsFloatString(val) == val.ty = "string" /\ val.v >= 200

\* The address of FUNCTION_METATABLE_REGISTRY_KEY, a registry key
FunctionMetatableKey == LightUserData(0)

\* lua_type: C functions and closures are both LUA_TFUNCTION, integers and
\* floats both LUA_TNUMBER
lua_type(val) ==
    CASE val.ty = "cfunction" -> "function"
      [] val.ty \in {"integer", "number"} -> "number"
      [] OTHER -> val.ty

----------------------------------------------------------------------------
\* Heap objects

NoObj == [kind |-> "none", code |-> "", tab |-> {}, upv |-> <<>>,
          stk |-> <<>>, meta |-> Nil, data |-> 0]
TableObj == [NoObj EXCEPT !.kind = "table"]
ThreadObj == [NoObj EXCEPT !.kind = "thread"]
ClosureObj(code, upv) == [NoObj EXCEPT !.kind = "function", !.code = code, !.upv = upv]
UserdataObj(data) == [NoObj EXCEPT !.kind = "userdata", !.data = data]

\* A table's entry for key k (nil when absent)
TabGet(tab, k) ==
    IF \E e \in tab : e.k = k THEN (CHOOSE e \in tab : e.k = k).v ELSE Nil

\* A table after t[k] = val (storing nil removes the entry)
TabSet(tab, k, val) ==
    {e \in tab : e.k # k} \cup (IF val = Nil THEN {} ELSE {[k |-> k, v |-> val]})

----------------------------------------------------------------------------
\* The C API on one interpreter state
\*   l = [stack, reg, free, named, heap, oom]
\* reg is the registry's array part (integer keys), free the head of
\* luaL_ref's free list (registry[0]), named the registry's other keys

Top(l) == Len(l.stack)
At(l, idx) ==
    LET p == IF idx < 0 THEN Top(l) + 1 + idx ELSE idx
    IN IF p \in 1..Top(l) THEN l.stack[p] ELSE Nil
Has(l, n) == Top(l) >= n

lua_push(l, val) == [l EXCEPT !.stack = Append(@, val)]
lua_pop(l, n) == [l EXCEPT !.stack = SubSeq(@, 1, Len(@) - n)]
lua_settop(l, n) == [l EXCEPT !.stack = SubSeq(@, 1, n)]
lua_pushvalue(l, idx) == IF Has(l, -idx) THEN lua_push(l, At(l, idx)) ELSE l

\* lua_insert(idx): move the top element into position idx, shifting up
lua_insert(l, idx) ==
    IF ~Has(l, -idx) THEN l ELSE
    LET n == Top(l)
        p == n + 1 + idx
    IN [l EXCEPT !.stack =
            SubSeq(@, 1, p - 1) \o <<@[n]>> \o SubSeq(@, p, n - 1)]

\* A new heap object, pushed.  The heap has MaxObjs cells; an allocation
\* that finds none free sets `oom`, and no action of the model takes such a
\* step (the allocator of create_lua aborts the process instead).
FreeCells(l) == {i \in 1..MaxObjs : l.heap[i].kind = "none"}
NewObjId(l) == CHOOSE i \in FreeCells(l) : \A j \in FreeCells(l) : i <= j
NewObj(l, obj) ==
    IF FreeCells(l) = {} THEN lua_push([l EXCEPT !.oom = TRUE], Nil)
    ELSE lua_push([l EXCEPT !.heap[NewObjId(l)] = obj], ObjVal(obj.kind, NewObjId(l)))

lua_newtable(l) == NewObj(l, TableObj)
lua_newthread(l) == NewObj(l, ThreadObj)

\* lua_pushcclosure(f, n): pops n upvalues, pushes the closure
lua_pushcclosure(l, code, n) ==
    IF ~Has(l, n) THEN l ELSE
    NewObj(lua_pop(l, n), ClosureObj(code, SubSeq(l.stack, Top(l) - n + 1, Top(l))))

\* lua_rawset(idx): t[k] = v with k, v the two top elements, both popped.
\* idx is a stack index of a table or the registry pseudo-index
LUA_REGISTRYINDEX == -1001000

lua_rawset(l, idx) ==
    IF ~Has(l, 2) THEN l ELSE
    LET k == At(l, -2)
        val == At(l, -1)
    IN IF idx = LUA_REGISTRYINDEX
       THEN [lua_pop(l, 2) EXCEPT !.named = TabSet(@, k, val)]
       ELSE IF ~Has(l, -idx) \/ At(l, idx).ty # "table" THEN lua_pop(l, 2)
       ELSE [lua_pop(l, 2) EXCEPT !.heap[At(l, idx).v].tab = TabSet(@, k, val)]

\* lua_rawget / lua_gettable(idx): replaces the key on top by t[key]
lua_rawget(l, idx) ==
    IF ~Has(l, 1) THEN l ELSE
    LET k == At(l, -1)
    IN IF idx = LUA_REGISTRYINDEX
       THEN lua_push(lua_pop(l, 1), TabGet(l.named, k))
       ELSE IF ~Has(l, -idx) \/ At(l, idx).ty # "table" THEN lua_push(lua_pop(l, 1), Nil)
       ELSE lua_push(lua_pop(l, 1), TabGet(l.heap[At(l, idx).v].tab, k))

\* lua_rawgeti(LUA_REGISTRYINDEX, n): pushes registry[n]
lua_rawgeti(l, n) ==
    lua_push(l, IF n \in 1..Len(l.reg) THEN l.reg[n] ELSE Nil)

\* lua_setmetatable(idx): pops a table (or nil) and makes it the metatable
\* of the userdata at idx
lua_setmetatable(l, idx) ==
    IF ~Has(l, 2) THEN l ELSE
    LET m == At(l, -1)
        u == At(l, idx)
    IN IF u.ty # "userdata" THEN lua_pop(l, 1)
       ELSE [lua_pop(l, 1) EXCEPT !.heap[u.v].meta = m]

\* luaL_ref(LUA_REGISTRYINDEX): pops the top value into a registry slot and
\* returns the slot id; nil takes no slot and gives LUA_REFNIL.  A freed slot
\* holds the id of the next free one.
luaL_ref_id(l) ==
    IF At(l, -1) = Nil THEN LUA_REFNIL
    ELSE IF l.free # 0 THEN l.free
    ELSE Len(l.reg) + 1

luaL_ref(l) ==
    LET val == At(l, -1)
        ref == luaL_ref_id(l)
    IN IF val = Nil THEN lua_pop(l, 1)
       ELSE IF l.free # 0
       THEN [lua_pop(l, 1) EXCEPT !.free = l.reg[ref].v, !.reg[ref] = val]
       ELSE [lua_pop(l, 1) EXCEPT !.reg = Append(@, val)]

\* luaL_unref(LUA_REGISTRYINDEX, ref): links slot ref into the free list
luaL_unref(l, ref) ==
    IF ref >= 0 /\ ref \in 1..Len(l.reg)
    THEN [l EXCEPT !.reg[ref] = Integer(l.free), !.free = ref]
    ELSE l

\* The slots on the free list (followed from its head, at most Len(reg) steps)
RECURSIVE FreeChain(_, _, _)
FreeChain(l, head, fuel) ==
    IF head = 0 \/ fuel = 0 \/ head \notin 1..Len(l.reg) THEN {}
    ELSE {head} \cup FreeChain(l, l.reg[head].v, fuel - 1)

FreeSlots(l) == FreeChain(l, l.free, Len(l.reg))

\* The registry slots that pin a value (the interpreter's own two excluded)
LiveSlots(l) == (3..Len(l.reg)) \ FreeSlots(l)

----------------------------------------------------------------------------
\* Lua instances, owned references, host values

\* struct Lua: a root instance owns teardown, an ephemeral one is built
\* inside a callback and shares the root's main state
RootLua(r) == [state |-> r, main_state |-> r, ephemeral |-> FALSE]
EphemeralLua(r) == [state |-> r, main_state |-> r, ephemeral |-> TRUE]
Instances == {RootLua(r) : r \in Roots} \cup {EphemeralLua(r) : r \in Roots}

\* struct LuaRef, with the value its slot was given when it was made
MkRef(lua, id, val) ==
    [lua |-> lua, registry_id |-> id, drop_unref |-> TRUE, pinned |-> val]
NoRef == [lua |-> RootLua(0), registry_id |-> 0, drop_unref |-> FALSE, pinned |-> Nil]

\* enum Value on the host side: a primitive, or a handle holding a LuaRef
Prim(val) == [ty |-> val.ty, v |-> val.v, lref |-> NoRef]
Handle(lref) == [ty |-> lref.pinned.ty, v |-> 0, lref |-> lref]
IsHandle(value) == value.lref # NoRef
\* What ToLua::to_lua gives when the conversion fails
ToLuaErr == [ty |-> "to_lua_err", v |-> 0, lref |-> NoRef]

\* The outcome of running part of an operation from interpreter state l:
\*   res      "ok", "err" (a Result::Err), "panic" (unwinding) or "abort"
\*   n        protected calls made so far; the failAt-th one fails
\*   ref      the slot id the last pop_ref or luaL_ref returned
\*   val      the host Value the last pop_value returned
\*   foreign  references of another root dropped while unwinding
\*   cache    ExtraData.registered_userdata as the operation leaves it
Start(l, cache, failAt) ==
    [L |-> l, res |-> "ok", err |-> "", n |-> 0, failAt |-> failAt,
     ref |-> 0, val |-> Prim(Nil), foreign |-> <<>>, cache |-> cache]

Ok(o) == o.res = "ok"
Do(o, l) == IF Ok(o) THEN [o EXCEPT !.L = l] ELSE o
Fail(o, e) == IF Ok(o) THEN [o EXCEPT !.res = "err", !.err = e] ELSE o

\* Dropping a LuaRef releases its slot unless it is marked externally
\* invalidated
LuaRef_drop(l, lref) ==
    IF lref.drop_unref THEN luaL_unref(l, lref.registry_id) ELSE l

\* Dropping a host Value drops the LuaRef it holds
Value_drop(l, value) ==
    IF IsHandle(value) THEN LuaRef_drop(l, value.lref) ELSE l

\* stack_guard: the depth at exit must be the depth at entry
stack_guard(l0, o) ==
    IF o.res \in {"ok", "err"} /\ Top(o.L) # Top(l0)
    THEN [o EXCEPT !.res = "abort", !.err = "stack leak"]
    ELSE o

\* stack_err_guard: as stack_guard on Ok; on Err the stack is cut back to the
\* entry depth, and a stack below the entry depth is fatal
stack_err_guard(l0, o) ==
    CASE o.res = "ok" /\ Top(o.L) # Top(l0) ->
            [o EXCEPT !.res = "abort", !.err = "stack leak"]
      [] o.res = "err" /\ Top(o.L) < Top(l0) ->
            [o EXCEPT !.res = "abort", !.err = "stack leak"]
      [] o.res = "err" /\ Top(o.L) >= Top(l0) ->
            [o EXCEPT !.L = lua_settop(o.L, Top(l0))]
      [] OTHER -> o

\* The values lua_pcall hands back: the callee's stack above the arguments'
\* base, cut or padded with nil to nresults
RECURSIVE Nils(_)
Nils(n) == IF n <= 0 THEN <<>> ELSE <<Nil>> \o Nils(n - 1)
Adjust(vals, nresults) ==
    IF Len(vals) >= nresults
    THEN SubSeq(vals, Len(vals) - nresults + 1, Len(vals))
    ELSE vals \o Nils(nresults - Len(vals))

\* protect_lua_call(state, nargs, nresults, f): runs f on the top nargs
\* values under lua_pcall; `after` is the state f leaves when it does not
\* raise.  f raises when `raises`, or when this is the failAt-th protected
\* call (an error of a __gc metamethod run by the collector).  On an error
\* the arguments and the error value are gone and the error is returned.
protect_lua_call(o, nargs, nresults, raises, after) ==
    IF ~Ok(o) THEN o ELSE
    LET base == Top(o.L) - nargs
        n == o.n + 1
    IN IF n = o.failAt \/ raises
       THEN [o EXCEPT !.L = lua_settop(o.L, base), !.n = n, !.res = "err",
                      !.err = IF raises THEN "RuntimeError"
                              ELSE "GarbageCollectorError"]
       ELSE [o EXCEPT !.n = n,
                      !.L = [after EXCEPT !.stack =
                                SubSeq(o.L.stack, 1, base) \o
                                Adjust(SubSeq(after.stack, base + 1, Top(after)),
                                       nresults)]]

\* push_string: lua_pushlstring under protect_lua_call
push_string(o, s) == protect_lua_call(o, 0, 1, FALSE, lua_push(o.L, Str(s)))

\* push_userdata::<T>: lua_newuserdata under protect_lua_call, then the
\* payload is written into it
push_userdata(o, data) ==
    protect_lua_call(o, 0, 1, FALSE, NewObj(o.L, UserdataObj(data)))

\* pop_ref that pops the value without pinning it: the variant C9 is checked
\* against
pop_ref_unpinned(o) ==
    IF ~Ok(o) THEN o
    ELSE [o EXCEPT !.L = lua_pop(o.L, 1), !.ref = luaL_ref_id(o.L),
                   !.val = Prim(At(o.L, -1))]

\* Lua::pop_ref: pins the top of the stack into the registry
pop_ref(o) ==
    IF ~Ok(o) THEN o
    ELSE [o EXCEPT !.L = luaL_ref(o.L), !.ref = luaL_ref_id(o.L),
                   !.val = Prim(At(o.L, -1))]

\* The LuaRef pop_ref returned
PoppedRef(lua, o) == MkRef(lua, o.ref, [ty |-> o.val.ty, v |-> o.val.v])

\* push_ref without the assertion on the root: the variant C5 is checked
\* against
push_ref_unchecked(lua, o, lref) ==
    IF ~Ok(o) THEN o ELSE Do(o, lua_rawgeti(o.L, lref.registry_id))

\* Lua::push_ref: asserts that the reference is of this instance's root,
\* then pushes the pinned value
push_ref(lua, o, lref) ==
    IF ~Ok(o) THEN o
    ELSE IF lref.lua.main_state # lua.main_state
    THEN [o EXCEPT !.res = "panic",
                   !.err = "Lua instance passed Value created from a different Lua"]
    ELSE Do(o, lua_rawgeti(o.L, lref.registry_id))

\* Lua::push_value: pushes a primitive, or a handle through push_ref; the
\* Value is consumed, so a handle's LuaRef is dropped on the way out (also
\* when push_ref panics: a reference of another root is then released in
\* that root, see `foreign`)
push_value(lua, o, value) ==
    IF ~Ok(o) THEN o
    ELSE IF ~IsHandle(value) THEN Do(o, lua_push(o.L, [ty |-> value.ty, v |-> value.v]))
    ELSE LET p == push_ref(lua, o, value.lref)
         IN IF Ok(p) THEN [p EXCEPT !.L = LuaRef_drop(p.L, value.lref)]
            ELSE [p EXCEPT !.foreign = Append(@, value.lref)]

\* Lua::pop_value: a primitive is popped and returned, anything else is
\* pinned with pop_ref and returned as a handle
pop_value(lua, o) ==
    IF ~Ok(o) THEN o
    ELSE LET val == At(o.L, -1)
         IN IF lua_type(val) \in {"nil", "boolean", "lightuserdata", "number"}
            THEN [o EXCEPT !.L = lua_pop(o.L, 1), !.val = Prim(val)]
            ELSE LET p == pop_ref(o)
                 IN [p EXCEPT !.val = Handle(PoppedRef(lua, p))]

----------------------------------------------------------------------------
\* The interpreter's collector: an object no stack, registry slot or live
\* object refers to is collected, and its cell is free for a new object

ValRefs(val) ==
    IF val.ty \in {"table", "function", "thread", "userdata"} /\ val.v \in 1..MaxObjs
    THEN {val.v} ELSE {}
SeqRefs(q) == UNION {ValRefs(q[i]) : i \in 1..Len(q)}
TabRefs(tab) == UNION {ValRefs(e.k) \cup ValRefs(e.v) : e \in tab}
ObjRefs(obj) ==
    TabRefs(obj.tab) \cup SeqRefs(obj.upv) \cup SeqRefs(obj.stk) \cup ValRefs(obj.meta)
GcRoots(l) == SeqRefs(l.stack) \cup SeqRefs(l.reg) \cup TabRefs(l.named)

RECURSIVE Mark(_, _, _)
Mark(l, marked, fuel) ==
    LET more == marked \cup UNION {ObjRefs(l.heap[i]) : i \in marked}
    IN IF more = marked \/ fuel = 0 THEN marked ELSE Mark(l, more, fuel - 1)

Collect(l) ==
    LET live == Mark(l, GcRoots(l), MaxObjs)
    IN [l EXCEPT !.heap = [i \in 1..MaxObjs |-> IF i \in live THEN @[i] ELSE NoObj]]

\* Addresses are not observable: after a collection the live objects are
\* renumbered 1, 2, ... in the order of their addresses
LiveIds(l) == {i \in 1..MaxObjs : l.heap[i].kind # "none"}
Rank(live, i) == Cardinality({j \in live : j <= i})
RenVal(live, val) ==
    IF val.ty \in {"table", "function", "thread", "userdata"} /\ val.v \in live
    THEN [val EXCEPT !.v = Rank(live, val.v)] ELSE val
RenSeq(live, q) == [i \in 1..Len(q) |-> RenVal(live, q[i])]
RenTab(live, tab) == {[k |-> RenVal(live, e.k), v |-> RenVal(live, e.v)] : e \in tab}
RenObj(live, obj) ==
    [obj EXCEPT !.tab = RenTab(live, @), !.upv = RenSeq(live, @),
                !.stk = RenSeq(live, @), !.meta = RenVal(live, @)]
Compact(l) ==
    LET live == LiveIds(l)
    IN [l EXCEPT !.stack = RenSeq(live, @), !.reg = RenSeq(live, @),
                 !.named = RenTab(live, @),
                 !.heap = [i \in 1..MaxObjs |->
                            IF i <= Cardinality(live)
                            THEN RenObj(live, l.heap[CHOOSE j \in live : Rank(live, j) = i])
                            ELSE NoObj]]
\* A LuaRef of root r after the collection that left interpreter state l
RenRef(l, r, lref) ==
    IF lref.lua.main_state = r
    THEN [lref EXCEPT !.pinned = RenVal(LiveIds(l), @)] ELSE lref

----------------------------------------------------------------------------
\* Lua::create_lua

\* A library table of the standard library (its contents are not modelled)
LibTable == ObjVal("table", 0)

\* lua_newstate: the registry holds the main thread and the globals table
lua_newstate ==
    [stack |-> <<>>,
     reg |-> <<ObjVal("thread", 0), ObjVal("table", 1)>>,
     free |-> 0,
     named |-> {},
     heap |-> [i \in 1..MaxObjs |-> IF i = 1 THEN TableObj ELSE NoObj],
     oom |-> FALSE]

\* Sets a global (lua_rawgeti of LUA_RIDX_GLOBALS, push_string, push, rawset,
\* with the table left on the stack by the caller)
set_field(l, name, val) == lua_rawset(lua_push(lua_push(l, Str(name)), val), -3)

\* The libraries opened with one module table left on the stack: the variant
\* C13 is checked against
open_libs_pop_8(l) ==
    LET g == lua_rawgeti(l, LUA_RIDX_GLOBALS)
        b == set_field(set_field(g, "pcall", CFn("luaB_pcall")),
                       "xpcall", CFn("luaB_xpcall"))
        RECURSIVE Libs(_, _)
        Libs(m, k) == IF k = 0 THEN m ELSE Libs(lua_push(m, LibTable), k - 1)
    IN lua_pop(Libs(b, 8), 8)

\* luaL_requiref(name, openf, 1) for the curated libraries: each leaves its
\* module table on the stack; the base library defines pcall and xpcall
open_libs(l) ==
    LET g == lua_rawgeti(l, LUA_RIDX_GLOBALS)
        b == set_field(set_field(g, "pcall", CFn("luaB_pcall")),
                       "xpcall", CFn("luaB_xpcall"))
        RECURSIVE Libs(_, _)
        Libs(m, k) == IF k = 0 THEN m ELSE Libs(lua_push(m, LibTable), k - 1)
    IN lua_pop(Libs(b, 8), 9)

\* The optional debug library
open_debug(l, load_debug) ==
    IF load_debug THEN lua_pop(lua_push(l, LibTable), 1) ELSE l

\* "Create the function metatable": a table with __gc and __metatable, kept
\* in the registry under FUNCTION_METATABLE_REGISTRY_KEY
create_function_metatable(l) ==
    LET a == lua_newtable(lua_push(l, FunctionMetatableKey))
        b == set_field(a, "__gc", CFn("userdata_destructor"))
        c == set_field(b, "__metatable", Boolean(FALSE))
    IN lua_rawset(c, LUA_REGISTRYINDEX)

\* The override of pcall alone: the variant C7 is checked against
override_pcall_only(l) ==
    lua_pop(set_field(lua_rawgeti(l, LUA_RIDX_GLOBALS), "pcall", CFn("safe_pcall")), 1)

\* "Override pcall and xpcall with versions that cannot be used to catch
\* rust panics"
override_pcall(l) ==
    LET g == lua_rawgeti(l, LUA_RIDX_GLOBALS)
        a == set_field(g, "pcall", CFn("safe_pcall"))
        b == set_field(a, "xpcall", CFn("safe_xpcall"))
    IN lua_pop(b, 1)

create_lua(load_debug) ==
    override_pcall(create_function_metatable(
        open_debug(open_libs(lua_newstate), load_debug)))

\* ExtraData as create_lua makes it.  registered_userdata maps a type to the
\* slot id of its metatable (0: no entry); registry_unref_list is an
\* Option<Vec> in a Mutex (locked or not), and its Arc is identified by the
\* root that allocated it.  teardown lists what Drop for Lua has done to the
\* block and to the interpreter state it belongs to, in order.
NewExtraData(r) ==
    [registered_userdata |-> [t \in HostTypes |-> 0],
     registry_unref_list |-> [arc |-> r, locked |-> FALSE, some |-> TRUE, list |-> <<>>],
     teardown |-> <<>>]

\* lua_close: every object of the state is freed
lua_close(l) ==
    [stack |-> <<>>, reg |-> <<>>, free |-> 0, named |-> {},
     heap |-> [i \in 1..MaxObjs |-> NoObj], oom |-> FALSE]

\* What Drop for Lua does once the stack is found empty, in order: the
\* pending-release list becomes None, the ExtraData box is freed, the
\* interpreter state is closed
Teardown == <<"unref_list_none", "free_extra", "lua_close">>

\* A Drop for Lua that does not look at `ephemeral`: the variant C25 is
\* checked against
Lua_drop_any(lua, l) ==
    IF Top(l) # 0
    THEN [L |-> l, res |-> "panic", err |-> "stack leak detected", events |-> <<>>]
    ELSE [L |-> lua_close(l), res |-> "ok", err |-> "", events |-> Teardown]

\* Drop for Lua on interpreter state l: nothing for an ephemeral instance;
\* a root asserts that the stack is empty, then closes the state
Lua_drop(lua, l) ==
    IF lua.ephemeral THEN [L |-> l, res |-> "ok", err |-> "", events |-> <<>>]
    ELSE IF Top(l) # 0
    THEN [L |-> l, res |-> "panic", err |-> "stack leak detected", events |-> <<>>]
    ELSE [L |-> lua_close(l), res |-> "ok", err |-> "", events |-> Teardown]

\* A Drop for Lua that leaves the pending-release list as it is: the variant
\* C26 is checked against
Lua_drop_extra_keeps_list(lua, ex) == ex

\* Drop for Lua on ExtraData: the pending-release list of a root becomes None
Lua_drop_extra(lua, ex) ==
    IF lua.ephemeral THEN ex
    ELSE [ex EXCEPT !.registry_unref_list.some = FALSE, !.registry_unref_list.list = <<>>]

----------------------------------------------------------------------------
\* Conversions of the C API

\* lua_tostring(idx): a number is converted in place to its string; the
\* result is NULL (and nothing changes) for anything but a string or number
lua_tostring(l, idx) ==
    LET val == At(l, idx)
        p == Top(l) + 1 + idx
    IN IF ~Has(l, -idx) THEN l
       ELSE IF val.ty = "integer" THEN [l EXCEPT !.stack[p] = LuaStr(100 + val.v)]
       ELSE IF val.ty = "number" THEN [l EXCEPT !.stack[p] = LuaStr(200 + val.v)]
       ELSE l

\* lua_tointegerx(idx, &isint): isint, then the integer
lua_isint(val) ==
    \/ val.ty = "integer"
    \/ val.ty = "number" /\ val.v % 2 = 0
    \/ IsIntString(val)
    \/ IsFloatString(val) /\ val.v % 2 = 0
lua_tointegerx(val) ==
    CASE val.ty = "integer" -> val.v
      [] val.ty = "number" -> val.v \div 2
      [] IsIntString(val) -> val.v - 100
      [] OTHER -> (val.v - 200) \div 2

\* lua_tonumberx(idx, &isnum): isnum, then the float (in halves)
lua_isnum(val) == val.ty \in {"integer", "number"} \/ IsIntString(val) \/ IsFloatString(val)
lua_tonumberx(val) ==
    CASE val.ty = "integer" -> 2 * val.v
      [] val.ty = "number" -> val.v
      [] IsIntString(val) -> 2 * (val.v - 100)
      [] OTHER -> val.v - 200

----------------------------------------------------------------------------
\* The public operations of Lua.  Each takes the instance, the outcome record
\* o = Start(...) holding the interpreter state at entry, and its inputs.

\* Drops the host values of q that are still owned when an operation ends:
\* a handle of this root releases its slot here, one of another root in its
\* own interpreter (recorded in `foreign`)
RECURSIVE DropValues(_, _, _)
DropValues(lua, o, q) ==
    IF q = <<>> THEN o
    ELSE LET value == Head(q)
             d == IF ~IsHandle(value) THEN o
                  ELSE IF value.lref.lua.main_state = lua.main_state
                  THEN [o EXCEPT !.L = LuaRef_drop(o.L, value.lref)]
                  ELSE [o EXCEPT !.foreign = Append(@, value.lref)]
         IN DropValues(lua, d, Tail(q))

\* Lua::load.  name: "none", "good" or "nul" (a name holding a NUL byte);
\* src: "good" or "bad" (a chunk that does not compile)
load(lua, o, name, src) ==
    stack_err_guard(o.L,
        IF name = "nul" THEN Fail(o, "ToLuaConversionError")
        ELSE IF src = "good"
        THEN pop_ref(Do(o, NewObj(o.L, ClosureObj("chunk", <<ObjVal("table", 1)>>))))
        ELSE Fail(Do(o, lua_pop(lua_push(o.L, Str("syntax error")), 1)), "SyntaxError"))

\* Lua::create_string
create_string(lua, o, s) == stack_err_guard(o.L, pop_ref(push_string(o, s)))

\* Lua::create_table
create_table(lua, o) ==
    stack_err_guard(o.L, pop_ref(protect_lua_call(o, 0, 1, FALSE, lua_newtable(o.L))))

\* The host values of an iterator of pairs, in order
RECURSIVE ValuesOf(_)
ValuesOf(cont) ==
    IF cont = <<>> THEN <<>> ELSE <<Head(cont).k, Head(cont).v>> \o ValuesOf(Tail(cont))

\* The loop of Lua::create_table_from over the pairs of cont.  A pair's
\* key and value are converted (to_lua) and pushed in turn, then set in the
\* table with lua_rawset(-3), which raises for a nil key.
RECURSIVE table_from_loop(_, _, _)
table_from_loop(lua, o, cont) ==
    IF cont = <<>> THEN o
    ELSE IF ~Ok(o) THEN DropValues(lua, o, ValuesOf(cont))
    ELSE LET k == Head(cont).k
             v == Head(cont).v
             rest == ValuesOf(Tail(cont))
         IN IF k = ToLuaErr
            THEN DropValues(lua, Fail(o, "ToLuaConversionError"), <<v>> \o rest)
            ELSE LET a == push_value(lua, o, k)
                 IN IF ~Ok(a) THEN DropValues(lua, a, <<v>> \o rest)
                    ELSE IF v = ToLuaErr
                    THEN DropValues(lua, Fail(a, "ToLuaConversionError"), rest)
                    ELSE LET b == push_value(lua, a, v)
                             c == protect_lua_call(b, 3, 1, At(b.L, -2) = Nil,
                                                   lua_rawset(b.L, -3))
                         IN table_from_loop(lua, c, Tail(cont))

\* create_table_from outside stack_err_guard: the variant C19 is checked
\* against
create_table_from_unguarded(lua, o, cont) ==
    pop_ref(table_from_loop(lua, protect_lua_call(o, 0, 1, FALSE, lua_newtable(o.L)), cont))

\* Lua::create_table_from
create_table_from(lua, o, cont) ==
    stack_err_guard(o.L,
        pop_ref(table_from_loop(lua,
            protect_lua_call(o, 0, 1, FALSE, lua_newtable(o.L)), cont)))

\* push_ref onto the stack of the thread object tid instead of self.state
push_ref_thread(lua, o, tid, lref) ==
    IF ~Ok(o) THEN o
    ELSE IF lref.lua.main_state # lua.main_state
    THEN [o EXCEPT !.res = "panic",
                   !.err = "Lua instance passed Value created from a different Lua"]
    ELSE IF tid \notin 1..MaxObjs THEN o
    ELSE [o EXCEPT !.L.heap[tid].stk =
            Append(@, IF lref.registry_id \in 1..Len(o.L.reg)
                      THEN o.L.reg[lref.registry_id] ELSE Nil)]

\* create_thread with the function pushed onto self.state instead of the new
\* thread's stack: the variant C1 is checked against
create_thread_on_self(lua, o, func) ==
    stack_err_guard(o.L,
        LET a == protect_lua_call(o, 0, 1, FALSE, lua_newthread(o.L))
            b == push_ref(lua, a, func.lref)
        IN DropValues(lua, pop_ref(b), <<func>>))

\* Lua::create_thread: func is moved in and dropped when the call ends
create_thread(lua, o, func) ==
    stack_err_guard(o.L,
        LET a == protect_lua_call(o, 0, 1, FALSE, lua_newthread(o.L))
            b == push_ref_thread(lua, a, At(a.L, -1).v, func.lref)
        IN DropValues(lua, pop_ref(b), <<func>>))

\* Lua::globals
globals(lua, o) == stack_guard(o.L, pop_ref(Do(o, lua_rawgeti(o.L, LUA_RIDX_GLOBALS))))

\* Lua::coerce_string
coerce_string(lua, o, value) ==
    IF value.ty = "string" THEN [o EXCEPT !.val = value]
    ELSE stack_err_guard(o.L,
        LET a == push_value(lua, o, value)
            b == protect_lua_call(a, 1, 1, FALSE, lua_tostring(a.L, -1))
        IN IF Ok(b) /\ At(b.L, -1).ty # "string"
           THEN Fail(Do(b, lua_pop(b.L, 1)), "FromLuaConversionError")
           ELSE LET c == pop_ref(b)
                IN IF Ok(c) THEN [c EXCEPT !.val = Handle(PoppedRef(lua, c))] ELSE c)

\* Lua::coerce_integer
coerce_integer(lua, o, value) ==
    IF value.ty = "integer" THEN [o EXCEPT !.val = value]
    ELSE stack_guard(o.L,
        LET a == push_value(lua, o, value)
            val == At(a.L, -1)
            b == Do(a, lua_pop(a.L, 1))
        IN IF ~Ok(b) THEN b
           ELSE IF ~lua_isint(val) THEN Fail(b, "FromLuaConversionError")
           ELSE [b EXCEPT !.val = Prim(Integer(lua_tointegerx(val)))])

\* Lua::coerce_number
coerce_number(lua, o, value) ==
    IF value.ty = "number" THEN [o EXCEPT !.val = value]
    ELSE stack_guard(o.L,
        LET a == push_value(lua, o, value)
            val == At(a.L, -1)
            b == Do(a, lua_pop(a.L, 1))
        IN IF ~Ok(b) THEN b
           ELSE IF ~lua_isnum(val) THEN Fail(b, "FromLuaConversionError")
           ELSE [b EXCEPT !.val = Prim(Number(lua_tonumberx(val)))])

----------------------------------------------------------------------------
\* Functions and userdata

\* Steps on an outcome record: a plain push, and the protected calls of
\* lua_newtable, lua_rawset(-3) and lua_pushcclosure
push(o, val) == Do(o, lua_push(o.L, val))
protected_newtable(o) == protect_lua_call(o, 0, 1, FALSE, lua_newtable(o.L))
protected_rawset(o) == protect_lua_call(o, 3, 1, FALSE, lua_rawset(o.L, -3))
protected_pushcclosure(o, code, n) ==
    protect_lua_call(o, n, 1, FALSE, lua_pushcclosure(o.L, code, n))
\* gc_guard(luaL_ref): the slot id is left in o.ref
ref_top(o) == IF Ok(o) THEN [o EXCEPT !.L = luaL_ref(o.L), !.ref = luaL_ref_id(o.L)] ELSE o

\* Gives the userdata on top of the stack the function metatable
set_function_metatable(o) ==
    Do(o, lua_setmetatable(
            lua_rawget(lua_push(o.L, FunctionMetatableKey), LUA_REGISTRYINDEX), -2))

\* Lua::create_callback_function: the boxed callback goes into a userdata
\* with the function metatable, which becomes upvalue 1 of a C closure over
\* callback_call_impl
create_callback_function(lua, o, func) ==
    stack_err_guard(o.L,
        pop_ref(protected_pushcclosure(
            set_function_metatable(push_userdata(o, func)), "callback_call_impl", 1)))

\* The Value::Function of the function create_callback_function returned
FunctionOf(lua, o) == Handle(PoppedRef(lua, o))

\* What T::add_methods registers for each host type: its named methods and
\* its metamethods, in the order the HashMaps enumerate them
TypeMethods(T) == <<"get">>
TypeMetaMethods(T) ==
    CASE T = 1 -> <<"__add">>
      [] T = 2 -> <<"__index">>
      [] T = 3 -> <<"__index", "__add">>
      [] OTHER -> <<"__add", "__index">>
\* The callback (payload identity) of a method of a type
MethodCallback(T, name) ==
    10 * T + (CHOOSE i \in 1..Len(StrTab) : StrTab[i] = name)

\* self.push_value(self.create_callback_function(m)?)
push_callback(lua, o, T, name) ==
    LET f == create_callback_function(lua, o, MethodCallback(T, name))
    IN push_value(lua, f, FunctionOf(lua, f))

\* "for (k, m) in methods.methods": fills the methods table on top of the
\* stack
RECURSIVE methods_loop(_, _, _, _)
methods_loop(lua, o, T, names) ==
    IF names = <<>> \/ ~Ok(o) THEN o
    ELSE methods_loop(lua,
            protected_rawset(push_callback(lua, push_string(o, Head(names)),
                                           T, Head(names))),
            T, Tail(names))

\* The __index of a type with named methods: a closure over meta_index_impl
\* with the methods table and the custom __index as upvalues
index_with_methods(lua, o, T) ==
    protected_rawset(protected_pushcclosure(
        push_callback(lua, Do(o, lua_rawget(lua_pushvalue(o.L, -1), -3)), T, "__index"),
        "meta_index_impl", 2))

\* A loop that sets a custom __index as it sets any other metamethod, over
\* the methods table: the variant C24 is checked against
RECURSIVE meta_methods_loop_shadowing(_, _, _, _, _)
meta_methods_loop_shadowing(lua, o, T, has_methods, names) ==
    IF names = <<>> \/ ~Ok(o) THEN o
    ELSE meta_methods_loop_shadowing(lua,
            protected_rawset(push_callback(lua, push_string(o, Head(names)),
                                           T, Head(names))),
            T, has_methods, Tail(names))

\* "for (k, m) in methods.meta_methods": sets each metamethod in the
\* metatable on top of the stack
RECURSIVE meta_methods_loop(_, _, _, _, _)
meta_methods_loop(lua, o, T, has_methods, names) ==
    IF names = <<>> \/ ~Ok(o) THEN o
    ELSE meta_methods_loop(lua,
            IF Head(names) = "__index" /\ has_methods
            THEN index_with_methods(lua, push_string(o, Head(names)), T)
            ELSE protected_rawset(push_callback(lua, push_string(o, Head(names)),
                                                T, Head(names))),
            T, has_methods, Tail(names))

\* The methods table of T, set as __index of the metatable on top of the stack
methods_table(lua, o, T) ==
    IF TypeMethods(T) = <<>> THEN o
    ELSE protected_rawset(methods_loop(lua,
            protected_newtable(push_string(o, "__index")), T, TypeMethods(T)))

\* __gc and __metatable of the metatable on top of the stack
gc_and_metatable(o) ==
    protected_rawset(push(push_string(
        protected_rawset(push(push_string(o, "__gc"), CFn("userdata_destructor"))),
        "__metatable"), Boolean(FALSE)))

\* The cache entry written whether or not the metatable was built: the
\* variant C30 is checked against
cache_metatable_early(o, T) ==
    [ref_top(o) EXCEPT !.cache[T] = luaL_ref_id(o.L)]

\* The metatable on top of the stack goes into the registry and the cache
cache_metatable(o, T) ==
    IF Ok(o) THEN [ref_top(o) EXCEPT !.cache[T] = luaL_ref_id(o.L)] ELSE o

\* userdata_metatable that builds the metatable without looking into the
\* cache: the variant C23 is checked against
userdata_metatable_uncached(lua, o, T) ==
    stack_err_guard(o.L,
        IF ~Ok(o) THEN o
        ELSE cache_metatable(
                gc_and_metatable(
                    meta_methods_loop(lua,
                        methods_table(lua, protected_newtable(o), T),
                        T, TypeMethods(T) # <<>>, TypeMetaMethods(T))),
                T))

\* Lua::userdata_metatable::<T>: the slot id of T's metatable (in o.ref),
\* from the cache or built and cached
userdata_metatable(lua, o, T) ==
    stack_err_guard(o.L,
        IF ~Ok(o) THEN o
        ELSE IF o.cache[T] # 0 THEN [o EXCEPT !.ref = o.cache[T]]
        ELSE cache_metatable(
                gc_and_metatable(
                    meta_methods_loop(lua,
                        methods_table(lua, protected_newtable(o), T),
                        T, TypeMethods(T) # <<>>, TypeMetaMethods(T))),
                T))

\* lua_rawgeti of the metatable's slot, then lua_setmetatable(-2)
set_userdata_metatable(o) ==
    Do(o, lua_setmetatable(lua_rawgeti(o.L, o.ref), -2))

\* Lua::do_create_userdata
do_create_userdata(lua, o, T) ==
    stack_err_guard(o.L,
        pop_ref(set_userdata_metatable(
            userdata_metatable(lua, push_userdata(o, T), T))))

----------------------------------------------------------------------------
\* The named registry and RegistryKeys

\* T::from_lua of the value pop_value returned; conv = "fail" is a
\* conversion that rejects it (the value is then dropped)
from_lua(lua, o, conv) ==
    IF Ok(o) /\ conv = "fail"
    THEN [DropValues(lua, Fail(o, "FromLuaConversionError"), <<o.val>>)
            EXCEPT !.val = Prim(Nil)]
    ELSE o

\* set_named_registry_value that pushes the value before the name: the
\* variant C12 is checked against
set_named_registry_value_swapped(lua, o, name, t) ==
    stack_err_guard(o.L,
        IF t = ToLuaErr THEN Fail(o, "ToLuaConversionError")
        ELSE LET a == push_value(lua, o, t)
                 b == push_string(a, name)
             IN IF ~Ok(b) /\ Ok(a) THEN b
                ELSE protect_lua_call(b, 2, 0, FALSE, lua_rawset(b.L, LUA_REGISTRYINDEX)))

\* Lua::set_named_registry_value
set_named_registry_value(lua, o, name, t) ==
    stack_err_guard(o.L,
        LET a == push_string(o, name)
        IN IF ~Ok(a) THEN DropValues(lua, a, <<t>>)
           ELSE IF t = ToLuaErr THEN Fail(a, "ToLuaConversionError")
           ELSE LET b == push_value(lua, a, t)
                IN protect_lua_call(b, 2, 0, FALSE, lua_rawset(b.L, LUA_REGISTRYINDEX)))

\* Lua::named_registry_value
named_registry_value(lua, o, name, conv) ==
    stack_err_guard(o.L,
        LET a == push_string(o, name)
            b == protect_lua_call(a, 1, 1, FALSE, lua_rawget(a.L, LUA_REGISTRYINDEX))
        IN from_lua(lua, pop_value(lua, b), conv))

\* Lua::unset_named_registry_value
unset_named_registry_value(lua, o, name) ==
    set_named_registry_value(lua, o, name, Prim(Nil))

\* Lua::extra: the ExtraData of the instance's main state
Lua_extra(lua) == extra[lua.main_state]

\* Arc::ptr_eq
Arc_ptr_eq(a, b) == a = b

\* owns_registry_value that takes every key for its own: the variant C14 is
\* checked against
owns_any_registry_value(lua, key) == TRUE

\* Lua::owns_registry_value
owns_registry_value(lua, key) ==
    Arc_ptr_eq(key.unref_list, Lua_extra(lua).registry_unref_list.arc)

\* Lua::create_registry_value: the slot id is left in o.ref
create_registry_value(lua, o, t) ==
    stack_guard(o.L,
        IF t = ToLuaErr THEN Fail(o, "ToLuaConversionError")
        ELSE LET a == push_value(lua, o, t)
             IN IF ~Ok(a) THEN a
                ELSE [a EXCEPT !.L = luaL_ref(a.L), !.ref = luaL_ref_id(a.L)])

\* The RegistryKey create_registry_value returned
NewRegistryKey(lua, o) ==
    [registry_id |-> o.ref,
     unref_list |-> Lua_extra(lua).registry_unref_list.arc,
     drop_unref |-> TRUE]

\* registry_value without the ownership check: the variant C4 is checked
\* against
registry_value_unchecked(lua, o, key, conv) ==
    stack_err_guard(o.L,
        from_lua(lua, pop_value(lua, Do(o, lua_rawgeti(o.L, key.registry_id))), conv))

\* Lua::registry_value
registry_value(lua, o, key, conv) ==
    IF ~Arc_ptr_eq(key.unref_list, Lua_extra(lua).registry_unref_list.arc)
    THEN Fail(o, "MismatchedRegistryKey")
    ELSE stack_err_guard(o.L,
            from_lua(lua, pop_value(lua, Do(o, lua_rawgeti(o.L, key.registry_id))),
                     conv))

\* Lua::remove_registry_value: the state it leaves, and the key as it is
\* when it is dropped at the end of the call
remove_registry_value(lua, o, key) ==
    IF ~Arc_ptr_eq(key.unref_list, Lua_extra(lua).registry_unref_list.arc)
    THEN Fail(o, "MismatchedRegistryKey")
    ELSE Do(o, luaL_unref(o.L, key.registry_id))

\* The key left as it was, to be dropped like any other: the variant C20 is
\* checked against
remove_registry_value_key_unmarked(lua, key) == key

\* The key marked as removed whatever its root: the variant C28 is checked
\* against
remove_registry_value_key_any(lua, key) == [key EXCEPT !.drop_unref = FALSE]

\* The key Lua::remove_registry_value leaves to be dropped: key.drop_unref =
\* false when the key is of this root
remove_registry_value_key(lua, key) ==
    IF ~Arc_ptr_eq(key.unref_list, Lua_extra(lua).registry_unref_list.arc)
    THEN key
    ELSE [key EXCEPT !.drop_unref = FALSE]

\* Dropping a RegistryKey: its id goes onto its pending-release list, unless
\* the key was removed or the list is gone with its root
RegistryKey_drop(ex, key) ==
    IF key.drop_unref /\ ex[key.unref_list].registry_unref_list.some
    THEN [ex EXCEPT ![key.unref_list].registry_unref_list.list =
                        Append(@, key.registry_id)]
    ELSE ex

\* Lua::expire_registry_values: takes the list, leaving an empty one, and
\* releases every id taken
RECURSIVE UnrefAll(_, _)
UnrefAll(l, ids) ==
    IF ids = <<>> THEN l ELSE UnrefAll(luaL_unref(l, Head(ids)), Tail(ids))

\* expire_registry_values releasing all but the first id taken: the variant
\* C6 is checked against
expire_all_but_first(lua, o) ==
    LET list == Lua_extra(lua).registry_unref_list.list
    IN Do(o, UnrefAll(o.L, IF list = <<>> THEN list ELSE Tail(list)))

expire_registry_values(lua, o) ==
    Do(o, UnrefAll(o.L, Lua_extra(lua).registry_unref_list.list))

----------------------------------------------------------------------------
\* Host closures and the callback invocation protocol

\* The closures the host registers, by what their body does when invoked:
\* closures 1..4 are Fn, closures 11..14 are FnMut only.  A body returns a
\* result (1), returns an Err (2), panics (3), or calls the function it is
\* registered as again through the interpreter (4) and, once it is entered
\* MaxDepth deep, does any of the former.
FnClosures == {1, 2, 3, 4}
FnMutClosures == {11, 12, 13, 14}

\* The closure create_function_mut hands to create_function: func inside a
\* RefCell, entered through try_borrow_mut
Wrapped(func) == 100 + func
IsWrapped(p) == p >= 100
Inner(p) == IF IsWrapped(p) THEN p - 100 ELSE p
BodyOf(p) ==
    CASE Inner(p) % 10 = 2 -> "err"
      [] Inner(p) % 10 = 3 -> "panic"
      [] Inner(p) % 10 = 4 -> "reenter"
      [] OTHER -> "ok"
\* The results of a body that returns: 7 when it is called without
\* arguments, else its arguments but the first, last argument first
ResultsOf(args) ==
    IF args = <<>> THEN <<Prim(Integer(7))>>
    ELSE [i \in 1..(Len(args) - 1) |-> args[Len(args) + 1 - i]]

\* Lua::create_function
create_function(lua, o, func) == create_callback_function(lua, o, func)

\* create_function_mut without the RefCell: the variant C8 is checked against
create_function_mut_unwrapped(lua, o, func) == create_function(lua, o, func)

\* Lua::create_function_mut
create_function_mut(lua, o, func) == create_function(lua, o, Wrapped(func))

\* get_userdata::<Callback>: the payload of the userdata
get_userdata(l, val) ==
    IF val.ty = "userdata" /\ val.v \in 1..MaxObjs THEN l.heap[val.v].data ELSE 0

\* A drain that appends each popped value at the back of args: the variant
\* C22 is checked against
RECURSIVE drain_args_push_back(_, _, _)
drain_args_push_back(lua, o, nargs) ==
    IF nargs = 0 \/ ~Ok(o) THEN [o |-> o, args |-> <<>>]
    ELSE LET d == drain_args_push_back(lua, pop_value(lua, o), nargs - 1)
         IN [o |-> d.o, args |-> <<pop_value(lua, o).val>> \o d.args]

\* "for _ in 0..nargs { args.push_front(lua.pop_value(state)) }"
RECURSIVE drain_args(_, _, _)
drain_args(lua, o, nargs) ==
    IF nargs = 0 \/ ~Ok(o) THEN [o |-> o, args |-> <<>>]
    ELSE LET d == drain_args(lua, pop_value(lua, o), nargs - 1)
         IN [o |-> d.o, args |-> Append(d.args, pop_value(lua, o).val)]

\* callback_call_impl that drains the arguments before it looks at the
\* sentinel: the variant C10 is checked against
callback_call_impl_drain_first(lua, o, f) ==
    LET upv == o.L.heap[f.v].upv[1]
        d == drain_args(lua, o, Top(o.L))
    IN IF lua_type(upv) = "nil"
       THEN [o |-> Fail(d.o, "CallbackDestructed"), events |-> <<"drain", "check">>,
             func |-> 0, args |-> d.args]
       ELSE [o |-> d.o, events |-> <<"drain", "check", "read">>,
             func |-> get_userdata(o.L, upv), args |-> d.args]

\* callback_call_impl up to the call of the closure, on the callee's stack
\* (the arguments) for the C closure f: the sentinel check on upvalue 1, the
\* read of the payload, the drain of the arguments.  events lists these in
\* the order they happen.
callback_call_impl(lua, o, f) ==
    LET upv == o.L.heap[f.v].upv[1]
        d == drain_args(lua, o, Top(o.L))
    IN IF lua_type(upv) = "nil"
       THEN [o |-> Fail(o, "CallbackDestructed"), events |-> <<"check">>,
             func |-> 0, args |-> <<>>]
       ELSE [o |-> d.o, events |-> <<"check", "read", "drain">>,
             func |-> get_userdata(o.L, upv), args |-> d.args]

\* "for r in results { lua.push_value(state, r) }"
RECURSIVE push_results(_, _, _)
push_results(lua, o, results) ==
    IF results = <<>> \/ ~Ok(o) THEN o
    ELSE push_results(lua, push_value(lua, o, Head(results)), Tail(results))

\* callback_call_impl once the host closure has returned Ok(results):
\* nresults is their number, check_stack_err reserves as many slots, the
\* results are pushed and Ok(nresults) is returned
callback_call_return(lua, o, results) ==
    [o |-> push_results(lua, o, results), nresults |-> Len(results)]

\* callback_call_impl that goes on to Ok(nresults) whatever the closure
\* returned: the variant C11 is checked against
callback_call_result_unchecked(o, enters, body) ==
    IF body \in {"panic", "nested"} THEN body ELSE "ok"

\* What the closure of callback_call_impl gives callback_error: the Err of
\* the sentinel check, of the closure's own wrapper (enters is false) or of
\* the host closure ("(*func)(&lua, args)?"), else Ok(nresults), unless the
\* body panics or is inside a nested call
callback_call_result(o, enters, body) ==
    IF ~Ok(o) \/ ~enters \/ body = "err" THEN "err" ELSE body

\* callback_error: an Err is raised as an interpreter error, a panic as a
\* wrapped panic, and Ok(n) returns n results
callback_error(result) ==
    CASE result = "err" -> "error"
      [] result = "panic" -> "panic"
      [] OTHER -> "none"

\* The arguments a body that returns does not hand back, dropped when it
\* returns (see ResultsOf)
Unreturned(args) == IF args = <<>> THEN <<>> ELSE <<args[1]>>

\* lua_call(nargs, nresults) of a callback: callback_call_impl runs on the
\* arguments as its stack, and its results, cut or padded to nresults,
\* replace the function and the arguments.  An Err of the callback is raised
\* as an error, which leaves the caller's frame.
lua_call_callback(lua, o, nargs, nresults) ==
    LET base == SubSeq(o.L.stack, 1, Top(o.L) - nargs - 1)
        args == SubSeq(o.L.stack, Top(o.L) - nargs + 1, Top(o.L))
        c == callback_call_impl(lua, [o EXCEPT !.L.stack = args], At(o.L, 0 - (nargs + 1)))
        ret == callback_call_return(lua, DropValues(lua, c.o, Unreturned(c.args)),
                                    ResultsOf(c.args))
    IN IF ~Ok(c.o) THEN [o |-> [c.o EXCEPT !.L.stack = base], args |-> <<>>]
       ELSE IF BodyOf(c.func) # "ok"
       THEN [o |-> [Fail(DropValues(lua, c.o, c.args), "ExternalError")
                       EXCEPT !.L.stack = base],
             args |-> c.args]
       ELSE [o |-> [ret.o EXCEPT !.L.stack =
                       base \o Adjust(SubSeq(ret.o.L.stack, 1, ret.nresults), nresults)],
             args |-> c.args]

\* lua_gettable(upvalueindex(n)) with the key on top: the key is replaced by
\* the entry of the table (a table without a metatable)
lua_gettable_upvalue(l, upv, n) ==
    lua_push(lua_pop(l, 1),
             IF upv[n].ty = "table" THEN TabGet(l.heap[upv[n].v].tab, At(l, -1)) ELSE Nil)

\* meta_index_impl, the __index of a type with named methods and a custom
\* __index, on the callee's stack (object, key), for the C closure f with
\* upvalues (methods table, custom __index): the entry of the methods table
\* if it is not nil, else the result of the custom __index.  n is the count
\* it returns, args what the custom __index was handed.
meta_index_impl(lua, o, f) ==
    LET upv == o.L.heap[f.v].upv
        found == lua_gettable_upvalue(lua_pushvalue(o.L, -1), upv, 1)
        called == lua_call_callback(lua,
                     Do(o, lua_insert(lua_push(lua_pop(found, 1), upv[2]), -3)), 2, 1)
    IN IF At(found, -1) # Nil
       THEN [o |-> Do(o, lua_pop(lua_insert(found, -3), 2)), n |-> 1, args |-> <<>>]
       ELSE [o |-> called.o, n |-> 1, args |-> called.args]

\* The interpreter indexes the userdata ud with key: the __index of its
\* metatable is called with (ud, key) if it is a function and indexed with
\* key if it is a table.  The values the index leaves are o.L.stack.
lua_index(lua, o, ud, key) ==
    LET mt == o.L.heap[ud.v].meta
        h == IF mt.ty = "table" THEN TabGet(o.L.heap[mt.v].tab, Str("__index")) ELSE Nil
        frame == [o EXCEPT !.L.stack = <<ud, key>>]
        direct == lua_call_callback(lua, [o EXCEPT !.L.stack = <<h, ud, key>>], 2, 1)
    IN CASE h.ty = "function" /\ o.L.heap[h.v].code = "meta_index_impl" ->
                meta_index_impl(lua, frame, h)
         [] h.ty = "function" ->
                [o |-> direct.o, n |-> 1, args |-> direct.args]
         [] h.ty = "table" ->
                [o |-> [o EXCEPT !.L.stack = <<TabGet(o.L.heap[h.v].tab, key)>>],
                 n |-> 1, args |-> <<>>]
         [] OTHER -> [o |-> Fail([o EXCEPT !.L.stack = <<>>], "RuntimeError"),
                      n |-> 0, args |-> <<>>]

\* The frames of the interpreter's call chain.  A callback frame is a call
\* of the C closure fn that is about to run callback_call_impl ("invoke") or
\* whose host closure func is inside a nested call ("body"); a pcall or
\* xpcall frame is a call of the function that global names.
LuaFrame ==
    [kind |-> "lua", handler |-> Nil, fn |-> Nil, func |-> 0, pc |-> "run", args |-> <<>>]
CallbackFrame(fn, args) ==
    [LuaFrame EXCEPT !.kind = "callback", !.fn = fn, !.pc = "invoke", !.args = args]
Global(l, name) == TabGet(l.heap[l.reg[LUA_RIDX_GLOBALS].v].tab, Str(name))
ProtectedFrame(l, name) == [LuaFrame EXCEPT !.kind = name, !.handler = Global(l, name)]

\* What a protected-call function makes of an error passing through it:
\* safe_pcall and safe_xpcall catch an error and raise a wrapped panic
\* again, the interpreter's own pcall and xpcall catch either
Catches(handler, sig) ==
    IF handler \in {CFn("safe_pcall"), CFn("safe_xpcall")} THEN sig = "error"
    ELSE handler \in {CFn("luaB_pcall"), CFn("luaB_xpcall")}

\* The RefCells that are mutably borrowed: those of the wrapped closures
\* whose body is running
Entered(frames) ==
    {i \in 1..Len(frames) : frames[i].kind = "callback" /\ frames[i].pc = "body"}
Borrowed(frames) == {frames[i].func : i \in {j \in Entered(frames) : IsWrapped(frames[j].func)}}

\* A RefCell that is never handed out: the variant C29 is checked against
try_borrow_mut_never(frames, p) == ~IsWrapped(p)

\* func.try_borrow_mut().map_err(|_| Error::RecursiveMutCallback)
try_borrow_mut(frames, p) == ~(IsWrapped(p) /\ p \in Borrowed(frames))

----------------------------------------------------------------------------
\* Scopes

\* lua_getupvalue(funcindex, n): pushes upvalue n of the closure
lua_getupvalue(l, idx, n) ==
    LET f == At(l, idx)
    IN IF f.ty = "function" /\ n \in 1..Len(l.heap[f.v].upv)
       THEN lua_push(l, l.heap[f.v].upv[n]) ELSE l

\* lua_setupvalue(funcindex, n): pops the top into upvalue n of the closure
lua_setupvalue(l, idx, n) ==
    LET f == At(l, idx)
    IN IF f.ty = "function" /\ n \in 1..Len(l.heap[f.v].upv)
       THEN [lua_pop(l, 1) EXCEPT !.heap[f.v].upv[n] = At(l, -1)] ELSE l

\* take_userdata::<T>: pops the userdata on top and moves its payload out,
\* leaving a userdata with no payload and no metatable
take_userdata(l) ==
    LET u == At(l, -1)
    IN IF u.ty = "userdata"
       THEN [lua_pop(l, 1) EXCEPT !.heap[u.v].data = 0, !.heap[u.v].meta = Nil]
       ELSE lua_pop(l, 1)

\* The handle of a Scope left to release its slot on drop: the variant C16
\* is checked against
Scoped_unmarked(lref) == lref

\* The handle a Scope returns: f.0.drop_unref = false
Scoped(lref) == [lref EXCEPT !.drop_unref = FALSE]

\* The destructor Scope::create_function pushes, leaving the closure with
\* its payload: the variant C2 is checked against
function_destructor_keeps_upvalue(l, registry_id) ==
    lua_pop(luaL_unref(lua_rawgeti(l, registry_id), registry_id), 1)

\* The destructor Scope::create_function pushes onto the scope's list
function_destructor(l, registry_id) ==
    lua_pop(
        lua_setupvalue(
            lua_push(
                take_userdata(
                    lua_getupvalue(
                        luaL_unref(lua_rawgeti(l, registry_id), registry_id), -1, 1)),
                Nil),
            -2, 1),
        1)

\* The destructor Scope::create_userdata pushes onto the scope's list
userdata_destructor(l, registry_id) ==
    take_userdata(luaL_unref(lua_rawgeti(l, registry_id), registry_id))

\* Scope::create_function: the function create_callback_function makes; the
\* handle is marked and a destructor is pushed (see Scope_push)
Scope_create_function(lua, o, func) == create_callback_function(lua, o, func)

\* Scope::create_function_mut
Scope_create_function_mut(lua, o, func) == Scope_create_function(lua, o, Wrapped(func))

\* Scope::create_userdata
Scope_create_userdata(lua, o, T) == do_create_userdata(lua, o, T)

\* One entry of Scope.destructors: the kind of item, the slot id the closure
\* captured, and whether dropping the payload it returns panics
Destructor(kind, registry_id, dp) == [kind |-> kind, registry_id |-> registry_id, dp |-> dp]

\* destructors.push(...) once the item is made
Scope_push(sc, o, kind, dp) ==
    IF Ok(o) THEN [sc EXCEPT !.destructors = Append(@, Destructor(kind, o.ref, dp))]
    ELSE sc

\* Running a destructor under its stack_guard
run_destructor(l, d) ==
    stack_guard(l, Start(IF d.kind = "function"
                         THEN function_destructor(l, d.registry_id)
                         ELSE userdata_destructor(l, d.registry_id),
                         <<>>, 0))

\* A drain that takes the destructors from the back of the list: the variant
\* C21 is checked against
Scope_drain_back(sc) == Len(sc.destructors) + 1 - sc.i

\* self.destructors.get_mut().drain(..): the position in the list of the
\* destructor the drain yields next, sc.i - 1 of them having been yielded
Scope_drain(sc) == sc.i

\* The Scope once the drain has yielded destructor d and the map has
\* collected what it returned
Scope_drained(sc, d) ==
    [sc EXCEPT !.i = @ + 1, !.to_drop = Append(@, d.dp), !.ran = Append(@, d.registry_id)]

\* Drop for Scope that drops each payload as soon as its destructor has
\* returned it and stops at a panic: the variant C3 is checked against
Scope_drop_eager(sc) ==
    IF sc.to_drop # <<>> THEN "drop_payload"
    ELSE IF sc.i <= Len(sc.destructors) /\ ~sc.panicked THEN "invalidate"
    ELSE "done"

\* Drop for Scope, as the next thing it does: the drain of the destructors
\* is collected into to_drop before to_drop is dropped
Scope_drop(sc) ==
    IF sc.i <= Len(sc.destructors) THEN "invalidate"
    ELSE IF sc.to_drop # <<>> THEN "drop_payload"
    ELSE "done"

\* An item of a scope is linked while its slot is allocated or its payload
\* is attached (a function's upvalue 1, a userdata's payload)
Attached(l, kind, obj) ==
    IF kind = "function" THEN l.heap[obj.v].upv # <<Nil>> ELSE l.heap[obj.v].data # 0
Linked(l, d, obj) == d.registry_id \notin FreeSlots(l) \/ Attached(l, d.kind, obj)

----------------------------------------------------------------------------
\* Lua::exec and Lua::eval

\* Source text, as the tokens the compiler sees.  "1+1" is an expression,
\* "x=x+1" a statement that counts in the global x, "bump()" and "fail()" are
\* calls (an expression and a statement) that count in x, fail() then raising
\* an error; "@" is no token of the language.
Sources == {"", "1+1", "return 1+1", "x=x+1", "bump()", "fail()", "return fail()",
            "x=x+1 fail()", "x=x+1 return bump()", "@", "x=x+1 @"}
Tokens(source) ==
    CASE source = "" -> <<>>
      [] source = "return 1+1" -> <<"return", "1+1">>
      [] source = "return fail()" -> <<"return", "fail()">>
      [] source = "x=x+1 fail()" -> <<"x=x+1", "fail()">>
      [] source = "x=x+1 return bump()" -> <<"x=x+1", "return", "bump()">>
      [] source = "x=x+1 @" -> <<"x=x+1", "@">>
      [] OTHER -> <<source>>

\* format!("return {}", source)
Prefixed(toks) == <<"return">> \o toks

\* luaL_loadbuffer compiles a chunk: statements, then an optional return of
\* at most one expression, which must come last.  ErrAt is the position of
\* the token the compiler rejects, 0 when it rejects none.
IsExp(t) == t \in {"1+1", "bump()", "fail()"}
IsStat(t) == t \in {"x=x+1", "bump()", "fail()"}
RECURSIVE ErrAt(_)
ErrAt(toks) ==
    IF toks = <<>> THEN 0
    ELSE IF Head(toks) = "return"
    THEN (IF Len(toks) = 1 THEN 0
          ELSE IF ~IsExp(toks[2]) THEN 2
          ELSE IF Len(toks) > 2 THEN 3 ELSE 0)
    ELSE IF ~IsStat(Head(toks)) THEN 1
    ELSE IF ErrAt(Tail(toks)) = 0 THEN 0 ELSE ErrAt(Tail(toks)) + 1
Compiles(toks) == ErrAt(toks) = 0
\* The message of a syntax error names the position and the token
SyntaxError(toks) ==
    [ty |-> "error", v |-> <<ErrAt(toks), toks[ErrAt(toks)]>>, lref |-> NoRef]

\* The global x as a number, and x = x + 1
XOf(l) == IF Global(l, "x") = Nil THEN 0 ELSE Global(l, "x").v
Bump(l) ==
    [l EXCEPT !.heap[l.reg[LUA_RIDX_GLOBALS].v].tab = TabSet(@, Str("x"), Integer(XOf(l) + 1))]

\* Running one statement or expression, then a compiled chunk: the state it
\* leaves, whether it raised, and the value it returned
Exec(l, t) ==
    CASE t = "1+1" -> [L |-> l, raised |-> FALSE, val |-> Integer(2)]
      [] t = "fail()" -> [L |-> Bump(l), raised |-> TRUE, val |-> Nil]
      [] OTHER -> [L |-> Bump(l), raised |-> FALSE, val |-> Integer(XOf(l) + 1)]
RECURSIVE Run(_, _)
Run(l, toks) ==
    IF toks = <<>> THEN [L |-> l, raised |-> FALSE, val |-> Nil]
    ELSE IF Head(toks) = "return"
    THEN (IF Len(toks) = 1 THEN [L |-> l, raised |-> FALSE, val |-> Nil]
          ELSE Exec(l, toks[2]))
    ELSE LET r == Exec(l, Head(toks))
         IN IF r.raised THEN r ELSE Run(r.L, Tail(toks))

\* Lua::load of a source text
load_source(lua, o, name, toks) ==
    LET loaded == load(lua, o, name, IF Compiles(toks) THEN "good" ELSE "bad")
    IN IF loaded.err = "SyntaxError" THEN [loaded EXCEPT !.val = SyntaxError(toks)]
       ELSE loaded

\* Function::call(()) on the function load has just returned (its slot is
\* o.ref), which is dropped when the call is over
Function_call(lua, o, toks) ==
    LET f == PoppedRef(lua, o)
        c == stack_err_guard(o.L,
                LET a == push_ref(lua, o, f)
                    r == Run(lua_pop(a.L, 1), toks)
                IN IF r.raised THEN Fail(Do(a, r.L), "RuntimeError")
                   ELSE [Do(a, r.L) EXCEPT !.val = Prim(r.val)])
    IN [c EXCEPT !.L = LuaRef_drop(c.L, f)]

\* The result of exec and eval: the outcome, the texts load was called with
\* and the texts that were run, in order
Evaluated(o, loads, ran) == [o |-> o, loads |-> loads, ran |-> ran]

\* Lua::exec
exec(lua, o, name, source) ==
    LET loaded == load_source(lua, o, name, Tokens(source))
    IN IF ~Ok(loaded) THEN Evaluated(loaded, <<Tokens(source)>>, <<>>)
       ELSE Evaluated(Function_call(lua, loaded, Tokens(source)),
                      <<Tokens(source)>>, <<Tokens(source)>>)

\* eval that falls back to the source unchanged whenever the prefixed source
\* does not give a result: the variant C15 is checked against
eval_or_exec(lua, o, name, source) ==
    LET first == load_source(lua, o, name, Prefixed(Tokens(source)))
        called == Function_call(lua, first, Prefixed(Tokens(source)))
        again == exec(lua, [o EXCEPT !.L = IF Ok(first) THEN called.L ELSE first.L],
                      name, source)
    IN IF Ok(first) /\ Ok(called)
       THEN Evaluated(called, <<Prefixed(Tokens(source))>>, <<Prefixed(Tokens(source))>>)
       ELSE Evaluated(again.o, <<Prefixed(Tokens(source))>> \o again.loads,
                      (IF Ok(first) THEN <<Prefixed(Tokens(source))>> ELSE <<>>)
                          \o again.ran)

\* Lua::eval: load of "return " + source, or else load of the source, then
\* the call of what was loaded
eval(lua, o, name, source) ==
    LET first == load_source(lua, o, name, Prefixed(Tokens(source)))
        second == load_source(lua, [o EXCEPT !.L = first.L], name, Tokens(source))
    IN IF Ok(first)
       THEN Evaluated(Function_call(lua, first, Prefixed(Tokens(source))),
                      <<Prefixed(Tokens(source))>>, <<Prefixed(Tokens(source))>>)
       ELSE IF Ok(second)
       THEN Evaluated(Function_call(lua, second, Tokens(source)),
                      <<Prefixed(Tokens(source)), Tokens(source)>>, <<Tokens(source)>>)
       ELSE Evaluated(second, <<Prefixed(Tokens(source)), Tokens(source)>>, <<>>)

----------------------------------------------------------------------------
\* The stack budget of an operation

\* What an operation does to the stack, step by step: check_stack(n) reserves
\* n slots above the top, a push takes n slots, a pop gives n back, and a
\* helper uses n slots above the top for a while and leaves the top d higher
check_stack(n) == [kind |-> "check", n |-> n, d |-> 0]
Pushes(n) == [kind |-> "push", n |-> n, d |-> n]
Pops(n) == [kind |-> "pop", n |-> 0, d |-> 0 - n]
Uses(n, d) == [kind |-> "use", n |-> n, d |-> d]

\* push_value uses 2 slots and leaves the value; pop_value uses 2 slots, the
\* value it pops being one; pop_ref and luaL_ref use 1 slot above the value
\* they pop; luaL_unref uses 1 slot
push_value_stack == Uses(2, 1)
pop_value_stack == Uses(1, -1)
pop_ref_stack == Uses(1, -1)
luaL_ref_stack == Uses(1, -1)
luaL_unref_stack == Uses(1, 0)

\* Lua::load: luaL_loadbuffer pushes the chunk (pop_ref) or the error
\* message (pop_error)
load_stack(compiles) ==
    <<check_stack(1), Pushes(1)>> \o (IF compiles THEN <<pop_ref_stack>> ELSE <<Pops(1)>>)
\* Lua::globals
globals_stack == <<check_stack(2), Pushes(1), pop_ref_stack>>
\* Lua::coerce_integer and Lua::coerce_number of a value that is pushed
coerce_integer_stack == <<check_stack(2), push_value_stack, Pops(1)>>
\* Lua::create_registry_value
create_registry_value_stack == <<check_stack(2), push_value_stack, luaL_ref_stack>>
\* Lua::registry_value with a key of this root
registry_value_stack == <<check_stack(2), Pushes(1), pop_value_stack>>
\* Lua::remove_registry_value with a key of this root
remove_registry_value_stack == <<luaL_unref_stack>>
\* Lua::expire_registry_values with n ids on the list
expire_registry_values_stack(n) == [i \in 1..n |-> luaL_unref_stack]
\* The destructor Scope::create_function pushes: lua_rawgeti, luaL_unref,
\* lua_getupvalue, take_userdata, lua_pushnil, lua_setupvalue, lua_pop
function_destructor_stack ==
    <<check_stack(2), Pushes(1), luaL_unref_stack, Pushes(1), Pops(1), Pushes(1),
      Pops(1), Pops(1)>>
\* The destructor Scope::create_userdata pushes: lua_rawgeti, luaL_unref,
\* take_userdata
userdata_destructor_stack == <<check_stack(1), Pushes(1), luaL_unref_stack, Pops(1)>>

BudgetOps == {"load", "globals", "coerce_integer", "create_registry_value",
              "registry_value", "remove_registry_value", "expire_registry_values",
              "function_destructor", "userdata_destructor"}
StackSteps(op, n) ==
    CASE op = "load" -> load_stack(n = 0)
      [] op = "globals" -> globals_stack
      [] op = "coerce_integer" -> coerce_integer_stack
      [] op = "create_registry_value" -> create_registry_value_stack
      [] op = "registry_value" -> registry_value_stack
      [] op = "remove_registry_value" -> remove_registry_value_stack
      [] op = "expire_registry_values" -> expire_registry_values_stack(n)
      [] op = "function_destructor" -> function_destructor_stack
      [] OTHER -> userdata_destructor_stack

----------------------------------------------------------------------------
\* The host program: the state after construction, and its steps

NoScope == [phase |-> "none", lua |-> RootLua(0), destructors |-> <<>>, i |-> 1,
            to_drop |-> <<>>, items |-> <<>>, panicked |-> FALSE, dropped |-> 0,
            ran |-> <<>>]
NoInv == [fn |-> Nil, destructed |-> FALSE, active |-> FALSE, entered |-> FALSE,
          events |-> <<>>, err |-> "", nargs |-> 0, left |-> 0, func |-> 0,
          args |-> <<>>, results |-> <<>>, stack |-> <<>>, nresults |-> 0]
NoCall == [phase |-> "none", lua |-> RootLua(0), frames |-> <<>>, sig |-> "none",
           err |-> "", panicked |-> FALSE, caught |-> FALSE, inv |-> NoInv]
\* The host threads other than the one that holds the Lua instance
Threads == {1, 2}
\* No thread is dropping a key (drop), expire_registry_values is not running
\* (expire: its position, its local unref_list, the sweeps made); pushed and
\* released are the ids pushed onto the pending-release list and the ids
\* given to luaL_unref by a sweep, in order, since construction
NoKey == [registry_id |-> 0, unref_list |-> 0, drop_unref |-> FALSE]
NoThreads ==
    [drop |-> [t \in Threads |-> [pc |-> "idle", key |-> NoKey]],
     expire |-> [pc |-> "idle", unref_list |-> <<>>, sweeps |-> 0],
     pushed |-> <<>>, released |-> <<>>]
\* No operation is in progress
NoBudget == [op |-> "", steps |-> <<>>, pc |-> 0, top |-> 0, cap |-> 0, over |-> FALSE]
NoLast == [n |-> 0, op |-> "new", lua |-> RootLua(0), res |-> "ok", err |-> "",
           info |-> 0, arg |-> "", mixed |-> FALSE]

Init ==
    /\ L = [r \in Roots |-> create_lua(FALSE)]
    /\ extra = [r \in Roots |-> NewExtraData(r)]
    /\ refs = {}
    /\ keys = {}
    /\ last = NoLast
    /\ scope = NoScope
    /\ call = NoCall
    /\ threads = NoThreads
    /\ budget = NoBudget

\* The host values an operation can be handed: primitives and the handles
\* the host holds (a handle is moved into the call)
PrimInputs == {Prim(Nil), Prim(Integer(7)), Prim(Number(3)), Prim(Boolean(TRUE))}
HandleInputs == {Handle(h) : h \in refs}
ValueInputs == PrimInputs \cup HandleInputs
\* The handles among a sequence of host values
HandlesIn(q) == {q[i].lref : i \in {j \in 1..Len(q) : IsHandle(q[j])}}
\* No handle is moved twice
Linear(q) == \A i, j \in 1..Len(q) : (i # j /\ IsHandle(q[i])) => q[i] # q[j]

\* The failure points an operation is tried with: none, or its k-th
\* protected call
FailPoints(k) == 0..k
\* Most protected calls one operation makes (do_create_userdata building a
\* metatable)
MaxProtected == 18

\* The references of other roots dropped by an operation release their
\* slots in their own interpreter
RECURSIVE ForeignDrops(_, _, _)
ForeignDrops(l, r, q) ==
    IF q = <<>> THEN l
    ELSE ForeignDrops(IF Head(q).lua.main_state = r THEN LuaRef_drop(l, Head(q)) ELSE l,
                      r, Tail(q))

\* The host program can make a call: it has not panicked or aborted, it is
\* not tearing a scope down and the interpreter is not inside a call
Running ==
    /\ last.res \notin {"abort", "panic"}
    /\ scope.phase \in {"none", "body"}
    /\ call.phase = "none"
\* The host program has made fewer than n calls
Budget(n) == last.n < n
Entry(lua, failAt) ==
    Start(L[lua.main_state], extra[lua.main_state].registered_userdata, failAt)
\* The interpreter state of root r when an operation on lua has ended with
\* outcome o, before and after the collector has run
Ended(r, lua, o) ==
    Collect(IF r = lua.main_state THEN ForeignDrops(o.L, r, o.foreign)
            ELSE ForeignDrops(L[r], r, o.foreign))
\* An operation on instance lua ends with outcome o: the interpreter state
\* and the host's handles are as it leaves them.  given are the handles moved
\* into the call, made the handles it returned.
Return(op, lua, o, given, made, info, arg) ==
    /\ ~o.L.oom
    /\ Len(o.L.reg) <= MaxReg
    /\ o.failAt <= o.n
    /\ L' = [r \in Roots |-> Compact(Ended(r, lua, o))]
    /\ refs' = {RenRef(Ended(h.lua.main_state, lua, o), h.lua.main_state, h) :
                    h \in (refs \ given) \cup (IF Ok(o) THEN made ELSE {})}
    /\ Cardinality(refs') <= MaxRefs
    /\ last' = [n |-> last.n + 1, op |-> op, lua |-> lua, res |-> o.res, err |-> o.err,
                info |-> info, arg |-> arg,
                mixed |-> \E h \in given : h.lua.main_state # lua.main_state]

\* The handle an operation ending in pop_ref returns
Made(lua, o) == {PoppedRef(lua, o)}
\* The handle inside the Value an operation returns, if any
MadeValue(o) == IF IsHandle(o.val) THEN {o.val.lref} ELSE {}

HostLoad(lua) ==
    \E name \in {"none", "good", "nul"}, src \in {"good", "bad"} :
        /\ Running
        /\ \E o \in {load(lua, Entry(lua, 0), name, src)} :
           /\ Return("load", lua, o, {}, Made(lua, o), 0, src)
           /\ UNCHANGED <<threads, budget, extra, keys, scope, call>>

HostCreateString(lua) ==
    \E f \in FailPoints(1) :
        /\ Running
        /\ \E o \in {create_string(lua, Entry(lua, f), "x")} :
           /\ Return("create_string", lua, o, {}, Made(lua, o), 0, "")
           /\ UNCHANGED <<threads, budget, extra, keys, scope, call>>

HostCreateTable(lua) ==
    \E f \in FailPoints(1) :
        /\ Running
        /\ \E o \in {create_table(lua, Entry(lua, f))} :
           /\ Return("create_table", lua, o, {}, Made(lua, o), 0, "")
           /\ UNCHANGED <<threads, budget, extra, keys, scope, call>>

\* How deep the tables of val nest (0 for anything but a table)
RECURSIVE TableDepth(_, _, _)
TableDepth(l, val, fuel) ==
    IF val.ty # "table" \/ fuel = 0 \/ val.v \notin 1..MaxObjs THEN 0
    ELSE LET inner == {TableDepth(l, e.k, fuel - 1) : e \in l.heap[val.v].tab} \cup
                      {TableDepth(l, e.v, fuel - 1) : e \in l.heap[val.v].tab} \cup {0}
         IN 1 + CHOOSE d \in inner : \A c \in inner : c <= d

\* The iterators create_table_from is tried with: pairs of a key and a value
\* that are a primitive, a failing conversion or a handle
Pairs ==
    {[k |-> Prim(Integer(7)), v |-> Prim(Boolean(TRUE))],
     [k |-> Prim(Nil), v |-> Prim(Boolean(TRUE))],
     [k |-> ToLuaErr, v |-> Prim(Boolean(TRUE))],
     [k |-> Prim(Integer(7)), v |-> ToLuaErr]}
    \cup {[k |-> Prim(Integer(7)), v |-> h] : h \in HandleInputs}
RECURSIVE Conts(_)
Conts(n) ==
    IF n = 0 THEN {<<>>}
    ELSE Conts(n - 1) \cup
         {Append(c, p) : c \in {d \in Conts(n - 1) : Len(d) = n - 1}, p \in Pairs}

HostCreateTableFrom(lua) ==
    \E cont \in Conts(MaxCont) :
      \E f \in 0..(Len(cont) + 1) :
        /\ Running
        /\ \E o \in {create_table_from(lua, Entry(lua, f), cont)} :
           /\ Linear(ValuesOf(cont))
           /\ Ok(o) => TableDepth(o.L, o.val, MaxNest + 1) <= MaxNest
           /\ Return("create_table_from", lua, o, HandlesIn(ValuesOf(cont)),
                     Made(lua, o), Len(cont), "")
           /\ UNCHANGED <<threads, budget, extra, keys, scope, call>>

HostCreateFunction(lua, funcs) ==
    \E func \in funcs, f \in FailPoints(2) :
        /\ Running
        /\ \E o \in {create_function(lua, Entry(lua, f), func)} :
           /\ Return("create_function", lua, o, {}, Made(lua, o), func, "")
           /\ UNCHANGED <<threads, budget, extra, keys, scope, call>>

HostCreateFunctionMut(lua, funcs) ==
    \E func \in funcs, f \in FailPoints(2) :
        /\ Running
        /\ \E o \in {create_function_mut(lua, Entry(lua, f), func)} :
           /\ Return("create_function_mut", lua, o, {}, Made(lua, o), func, "")
           /\ UNCHANGED <<threads, budget, extra, keys, scope, call>>

HostCreateThread(lua) ==
    \E func \in {h \in HandleInputs : h.ty = "function"}, f \in FailPoints(1) :
        /\ Running
        /\ \E o \in {create_thread(lua, Entry(lua, f), func)} :
           /\ Return("create_thread", lua, o, {func.lref}, Made(lua, o), 0, "")
           /\ UNCHANGED <<threads, budget, extra, keys, scope, call>>

HostCreateUserdataOf(lua, types) ==
    \E T \in types, f \in FailPoints(MaxProtected) :
        /\ Running
        /\ \E o \in {do_create_userdata(lua, Entry(lua, f), T)} :
           /\ Return("create_userdata", lua, o, {}, Made(lua, o), T,
                     IF ~Ok(o) /\ o.n >= 3 THEN "partway" ELSE "")
           /\ extra' = [extra EXCEPT ![lua.main_state].registered_userdata = o.cache]
           /\ UNCHANGED <<threads, budget, keys, scope, call>>

HostCreateUserdata(lua) == HostCreateUserdataOf(lua, TypeIds)

HostGlobals(lua) ==
    /\ Running
    /\ \E o \in {globals(lua, Entry(lua, 0))} :
       /\ Return("globals", lua, o, {}, Made(lua, o), 0, "")
       /\ UNCHANGED <<threads, budget, extra, keys, scope, call>>

HostCoerce(lua) ==
    \E value \in ValueInputs, f \in FailPoints(1), op \in {"coerce_string", "coerce_integer", "coerce_number"} :
        /\ Running
        /\ \E o \in {CASE op = "coerce_string" -> coerce_string(lua, Entry(lua, f), value)
                   [] op = "coerce_integer" -> coerce_integer(lua, Entry(lua, f), value)
                   [] OTHER -> coerce_number(lua, Entry(lua, f), value)} :
           /\ Return(op, lua, o, HandlesIn(<<value>>), MadeValue(o), 0, "")
           /\ UNCHANGED <<threads, budget, extra, keys, scope, call>>

\* Dropping a handle the host holds
HostDropRef ==
    \E h \in refs :
        /\ Running
        /\ \E r \in {h.lua.main_state} : \E l \in {Collect(LuaRef_drop(L[h.lua.main_state], h))} :
           /\ L' = [L EXCEPT ![r] = Compact(l)]
           /\ refs' = {RenRef(l, r, g) : g \in refs \ {h}}
           /\ last' = [n |-> last.n + 1, op |-> "drop_ref", lua |-> h.lua, res |-> "ok", err |-> "",
                       info |-> h.registry_id,
                       arg |-> IF h.drop_unref THEN "" ELSE "scoped", mixed |-> FALSE]
           /\ UNCHANGED <<threads, budget, extra, keys, scope, call>>

\* The identity of a host value when the operation that ended with outcome o
\* has returned: a primitive's value, or the object a handle pinned
IdentAfter(lua, o, t) ==
    IF IsHandle(t)
    THEN RenVal(LiveIds(Ended(lua.main_state, lua, o)), t.lref.pinned).v
    ELSE t.v

HostSetNamed(lua) ==
    \E t \in ValueInputs \cup {ToLuaErr}, f \in FailPoints(2) :
        /\ Running
        /\ \E o \in {set_named_registry_value(lua, Entry(lua, f), "x", t)} :
           /\ Return("set_named_registry_value", lua, o, HandlesIn(<<t>>), {},
                     IdentAfter(lua, o, t), t.ty)
           /\ UNCHANGED <<threads, budget, extra, keys, scope, call>>

\* set_named_registry_value of a handle the host holds
HostSetNamedHandle(lua) ==
    \E t \in HandleInputs, f \in FailPoints(2) :
        /\ Running
        /\ \E o \in {set_named_registry_value(lua, Entry(lua, f), "x", t)} :
           /\ Return("set_named_registry_value", lua, o, HandlesIn(<<t>>), {},
                     IdentAfter(lua, o, t), t.ty)
           /\ UNCHANGED <<threads, budget, extra, keys, scope, call>>

HostUnsetNamed(lua) ==
    \E f \in FailPoints(2) :
        /\ Running
        /\ \E o \in {unset_named_registry_value(lua, Entry(lua, f), "x")} :
           /\ Return("unset_named_registry_value", lua, o, {}, {}, 0, "")
           /\ UNCHANGED <<threads, budget, extra, keys, scope, call>>

HostGetNamed(lua) ==
    \E conv \in {"ok", "fail"}, f \in FailPoints(2) :
        /\ Running
        /\ \E o \in {named_registry_value(lua, Entry(lua, f), "x", conv)} :
           /\ Return("named_registry_value", lua, o, {}, MadeValue(o), 0, conv)
           /\ UNCHANGED <<threads, budget, extra, keys, scope, call>>

\* The host's RegistryKeys: keys holds [kid, key], kid naming the host
\* variable that holds the RegistryKey key
FreeKid == CHOOSE i \in 1..MaxKeys : \A k \in keys : k.kid # i

HostCreateRegistryValue(lua) ==
    \E t \in ValueInputs \cup {ToLuaErr} :
        /\ Running
        /\ \E o \in {create_registry_value(lua, Entry(lua, 0), t)} :
           /\ Cardinality(keys) < MaxKeys
           /\ Return("create_registry_value", lua, o, HandlesIn(<<t>>), {}, 0, "")
           /\ keys' = IF Ok(o)
                      THEN keys \cup {[kid |-> FreeKid, key |-> NewRegistryKey(lua, o)]}
                      ELSE keys
           /\ UNCHANGED <<threads, budget, extra, scope, call>>

HostRegistryValue(lua) ==
    \E k \in keys, conv \in {"ok", "fail"} :
        /\ Running
        /\ \E o \in {registry_value(lua, Entry(lua, 0), k.key, conv)} :
           /\ Return("registry_value", lua, o, {}, MadeValue(o), k.key.unref_list, conv)
           /\ UNCHANGED <<threads, budget, extra, keys, scope, call>>

\* remove_registry_value consumes the key, which is dropped as the call ends
HostRemoveRegistryValue(lua) ==
    \E k \in keys :
        /\ Running
        /\ \E o \in {remove_registry_value(lua, Entry(lua, 0), k.key)},
              ex \in {RegistryKey_drop(extra, remove_registry_value_key(lua, k.key))} :
           /\ Len(ex[k.key.unref_list].registry_unref_list.list) <= MaxPending
           /\ Return("remove_registry_value", lua, o, {}, {}, k.key.unref_list, "")
           /\ keys' = keys \ {k}
           /\ extra' = ex
           /\ UNCHANGED <<threads, budget, scope, call>>

HostOwnsRegistryValue(lua) ==
    \E k \in keys :
        /\ Running
        /\ last' = [n |-> last.n + 1, op |-> "owns_registry_value", lua |-> lua,
                    res |-> IF owns_registry_value(lua, k.key) THEN "true" ELSE "false",
                    err |-> "", info |-> k.key.unref_list, arg |-> "", mixed |-> FALSE]
        /\ UNCHANGED <<threads, budget, L, extra, refs, keys, scope, call>>

\* The host drops a RegistryKey it holds
HostDropKey ==
    \E k \in keys :
        LET ex == RegistryKey_drop(extra, k.key)
        IN /\ Running
           /\ Len(ex[k.key.unref_list].registry_unref_list.list) <= MaxPending
           /\ keys' = keys \ {k}
           /\ extra' = ex
           /\ last' = [n |-> last.n + 1, op |-> "drop_key",
                       lua |-> RootLua(k.key.unref_list), res |-> "ok", err |-> "",
                       info |-> k.key.registry_id, arg |-> "", mixed |-> FALSE]
           /\ UNCHANGED <<threads, budget, L, refs, scope, call>>

HostExpireRegistryValues(lua) ==
    /\ Running
    /\ \E o \in {expire_registry_values(lua, Entry(lua, 0))} :
       /\ Return("expire_registry_values", lua, o, {}, {},
                 Len(Lua_extra(lua).registry_unref_list.list), "")
       /\ extra' = [extra EXCEPT ![lua.main_state].registry_unref_list.list = <<>>]
       /\ UNCHANGED <<threads, budget, keys, scope, call>>

\* Drop for RegistryKey on host thread t: the key's list is locked, the id
\* is pushed (RegistryKey_drop), the lock is released
ThreadDropLock(t) ==
    \E k \in keys :
        /\ threads.drop[t].pc = "idle"
        /\ k.key.drop_unref
        /\ ~extra[k.key.unref_list].registry_unref_list.locked
        /\ extra' = [extra EXCEPT ![k.key.unref_list].registry_unref_list.locked = TRUE]
        /\ keys' = keys \ {k}
        /\ threads' = [threads EXCEPT !.drop[t] = [pc |-> "locked", key |-> k.key]]
        /\ UNCHANGED <<budget, L, refs, last, scope, call>>

ThreadDropPush(t) ==
    /\ threads.drop[t].pc = "locked"
    /\ extra' = RegistryKey_drop(extra, threads.drop[t].key)
    /\ threads' = [threads EXCEPT !.drop[t].pc = "pushed",
                                  !.pushed = Append(@, threads.drop[t].key.registry_id)]
    /\ UNCHANGED <<budget, L, refs, keys, last, scope, call>>

ThreadDropUnlock(t) ==
    /\ threads.drop[t].pc = "pushed"
    /\ extra' = [extra EXCEPT
                    ![threads.drop[t].key.unref_list].registry_unref_list.locked = FALSE]
    /\ threads' = [threads EXCEPT !.drop[t] = [pc |-> "idle", key |-> NoKey]]
    /\ UNCHANGED <<budget, L, refs, keys, last, scope, call>>

\* What mem::replace leaves in the list without emptying it: the variant C17
\* is checked against
expire_replacement_kept(list) == list

\* What mem::replace leaves in the list: Some(Vec::new())
expire_replacement(list) == <<>>

\* Lua::expire_registry_values on the thread that holds lua, step by step:
\* lock(), mem::replace reading the list and writing the empty one, the
\* guard dropped at the end of the statement, luaL_unref of each id taken
ExpireLock(lua) ==
    /\ Running
    /\ threads.expire.pc = "idle"
    /\ threads.expire.sweeps < MaxSweeps
    /\ ~Lua_extra(lua).registry_unref_list.locked
    /\ extra' = [extra EXCEPT ![lua.main_state].registry_unref_list.locked = TRUE]
    /\ threads' = [threads EXCEPT !.expire.pc = "locked"]
    /\ UNCHANGED <<budget, L, refs, keys, last, scope, call>>

ExpireRead(lua) ==
    /\ threads.expire.pc = "locked"
    /\ threads' = [threads EXCEPT !.expire.pc = "read",
                                  !.expire.unref_list = Lua_extra(lua).registry_unref_list.list]
    /\ UNCHANGED <<budget, L, extra, refs, keys, last, scope, call>>

ExpireWrite(lua) ==
    /\ threads.expire.pc = "read"
    /\ extra' = [extra EXCEPT ![lua.main_state].registry_unref_list.list =
                                  expire_replacement(@)]
    /\ threads' = [threads EXCEPT !.expire.pc = "replaced"]
    /\ UNCHANGED <<budget, L, refs, keys, last, scope, call>>

ExpireUnlock(lua) ==
    /\ threads.expire.pc = "replaced"
    /\ extra' = [extra EXCEPT ![lua.main_state].registry_unref_list.locked = FALSE]
    /\ threads' = [threads EXCEPT !.expire.pc = "unref"]
    /\ UNCHANGED <<budget, L, refs, keys, last, scope, call>>

ExpireUnref(lua) ==
    /\ threads.expire.pc = "unref"
    /\ threads.expire.unref_list # <<>>
    /\ L' = [L EXCEPT ![lua.main_state] = luaL_unref(@, Head(threads.expire.unref_list))]
    /\ threads' = [threads EXCEPT !.expire.unref_list = Tail(@),
                                  !.released = Append(@, Head(threads.expire.unref_list))]
    /\ UNCHANGED <<budget, extra, refs, keys, last, scope, call>>

ExpireReturn(lua) ==
    /\ threads.expire.pc = "unref"
    /\ threads.expire.unref_list = <<>>
    /\ threads' = [threads EXCEPT !.expire.pc = "idle", !.expire.sweeps = @ + 1]
    /\ UNCHANGED <<budget, L, extra, refs, keys, last, scope, call>>

\* An operation is entered with nothing of its own on the stack and nothing
\* reserved; n is the number of ids on the pending-release list, and a load
\* compiles when n = 0
BudgetEnter ==
    \E op \in BudgetOps, n \in 0..MaxPending :
        /\ Running
        /\ budget.pc = 0
        /\ budget' = [op |-> op, steps |-> StackSteps(op, n), pc |-> 1, top |-> 0,
                      cap |-> 0, over |-> FALSE]
        /\ UNCHANGED <<L, extra, refs, keys, last, scope, call, threads>>

\* The step the operation is at
Step == budget.steps[budget.pc]
AtStep(kind) == budget.pc \in 1..Len(budget.steps) /\ Step.kind = kind

\* check_stack(n): n slots above the top are reserved
BudgetCheck ==
    /\ AtStep("check")
    /\ budget' = [budget EXCEPT !.pc = @ + 1,
                                !.cap = IF budget.top + Step.n > @ THEN budget.top + Step.n
                                        ELSE @]
    /\ UNCHANGED <<L, extra, refs, keys, last, scope, call, threads>>

\* A push, or a helper that uses slots: `over` when they were not reserved
BudgetPush ==
    /\ AtStep("push")
    /\ budget' = [budget EXCEPT !.pc = @ + 1, !.top = @ + Step.d,
                                !.over = @ \/ budget.top + Step.n > budget.cap]
    /\ UNCHANGED <<L, extra, refs, keys, last, scope, call, threads>>

BudgetUse ==
    /\ AtStep("use")
    /\ budget' = [budget EXCEPT !.pc = @ + 1, !.top = @ + Step.d,
                                !.over = @ \/ budget.top + Step.n > budget.cap]
    /\ UNCHANGED <<L, extra, refs, keys, last, scope, call, threads>>

BudgetPop ==
    /\ AtStep("pop")
    /\ budget' = [budget EXCEPT !.pc = @ + 1, !.top = @ + Step.d]
    /\ UNCHANGED <<L, extra, refs, keys, last, scope, call, threads>>

BudgetReturn ==
    /\ budget.pc = Len(budget.steps) + 1
    /\ budget' = NoBudget
    /\ last' = [n |-> last.n + 1, op |-> budget.op, lua |-> RootLua(1), res |-> "ok",
                err |-> "", info |-> budget.cap,
                arg |-> IF budget.over THEN "over" ELSE "", mixed |-> FALSE]
    /\ UNCHANGED <<L, extra, refs, keys, scope, call, threads>>

\* The integer an operation returned, or the position its syntax error
\* names (0 when it returned neither)
IntOf(o) ==
    IF Ok(o) /\ o.val.ty = "integer" THEN o.val.v
    ELSE IF o.err = "SyntaxError" THEN o.val.v[1] ELSE 0

HostExec(lua) ==
    \E source \in Sources, name \in {"none", "nul"} :
        /\ Running
        /\ \E e \in {exec(lua, Entry(lua, 0), name, source)} :
           /\ Return("exec", lua, e.o, {}, {}, IntOf(e.o), source)
           /\ UNCHANGED <<threads, budget, extra, keys, scope, call>>

HostEval(lua) ==
    \E source \in Sources, name \in {"none", "nul"} :
        /\ Running
        /\ \E e \in {eval(lua, Entry(lua, 0), name, source)} :
           /\ Return("eval", lua, e.o, {}, {}, IntOf(e.o), source)
           /\ UNCHANGED <<threads, budget, extra, keys, scope, call>>

\* The root of lua has not been dropped
Alive(lua) == extra[lua.main_state].registry_unref_list.some

\* The host drops an instance, at the end of its program or while a panic
\* unwinds: nothing borrows it any more (no handle, no Scope, no call)
HostDropLua(lua) ==
    /\ last.res # "abort"
    /\ last.op # "drop_lua"
    /\ scope.phase = "none"
    /\ call.phase = "none"
    /\ Alive(lua)
    /\ \A h \in refs : h.lua.main_state # lua.main_state
    /\ \E o \in {Lua_drop(lua, L[lua.main_state])} :
       /\ L' = [L EXCEPT ![lua.main_state] = o.L]
       /\ extra' = [extra EXCEPT ![lua.main_state] =
                        IF o.res = "ok"
                        THEN [Lua_drop_extra(lua, @) EXCEPT !.teardown = @ \o o.events]
                        ELSE @]
       /\ last' = [n |-> last.n + 1, op |-> "drop_lua", lua |-> lua, res |-> o.res,
                   err |-> o.err, info |-> Top(L[lua.main_state]),
                   arg |-> IF last.res = "panic" THEN "unwinding" ELSE "",
                   mixed |-> FALSE]
       /\ UNCHANGED <<threads, budget, refs, keys, scope, call>>

\* Lua::scope: the Scope is made and the body f(&scope) starts
ScopeEnter(lua) ==
    /\ Running
    /\ scope.phase = "none"
    /\ scope' = [NoScope EXCEPT !.phase = "body", !.lua = lua]
    /\ last' = [n |-> last.n + 1, op |-> "scope_enter", lua |-> lua, res |-> "ok",
                err |-> "", info |-> 0, arg |-> "", mixed |-> FALSE]
    /\ UNCHANGED <<threads, budget, L, extra, refs, keys, call>>

\* The body registers a closure; dp: dropping what the closure captured panics
ScopeCreateFunction(funcs) ==
    \E func \in funcs, dp \in BOOLEAN, f \in FailPoints(2) :
        /\ Running
        /\ scope.phase = "body"
        /\ Len(scope.destructors) < MaxScoped
        /\ \E lua \in {scope.lua} : \E o \in {Scope_create_function(scope.lua, Entry(scope.lua, f), func)} :
           /\ Return("scope_create_function", lua, o, {}, {Scoped(PoppedRef(lua, o))},
                     func, "")
           /\ scope' = Scope_push(scope, o, "function", dp)
           /\ UNCHANGED <<threads, budget, extra, keys, call>>

ScopeCreateFunctionMut(funcs) ==
    \E func \in funcs, dp \in BOOLEAN, f \in FailPoints(2) :
        /\ Running
        /\ scope.phase = "body"
        /\ Len(scope.destructors) < MaxScoped
        /\ \E lua \in {scope.lua} : \E o \in {Scope_create_function_mut(scope.lua, Entry(scope.lua, f), func)} :
           /\ Return("scope_create_function_mut", lua, o, {}, {Scoped(PoppedRef(lua, o))},
                     func, "")
           /\ scope' = Scope_push(scope, o, "function", dp)
           /\ UNCHANGED <<threads, budget, extra, keys, call>>

\* The body registers a userdata; dp: dropping the host object panics
ScopeCreateUserdata ==
    \E T \in TypeIds, dp \in BOOLEAN, f \in FailPoints(1) :
        /\ Running
        /\ scope.phase = "body"
        /\ Len(scope.destructors) < MaxScoped
        /\ \E lua \in {scope.lua} : \E o \in {Scope_create_userdata(scope.lua, Entry(scope.lua, f), T)} :
           /\ Return("scope_create_userdata", lua, o, {}, {Scoped(PoppedRef(lua, o))},
                     T, "")
           /\ scope' = Scope_push(scope, o, "userdata", dp)
           /\ extra' = [extra EXCEPT ![lua.main_state].registered_userdata = o.cache]
           /\ UNCHANGED <<threads, budget, keys, call>>

\* The body returns or panics: the handles the Scope returned cannot outlive
\* it and are dropped, then drop(scope) starts.  items remembers the object
\* each destructor's slot pins.
ScopeBodyEnd ==
    \E panics \in BOOLEAN :
        LET l == L[scope.lua.main_state]
        IN /\ Running
           /\ scope.phase = "body"
           /\ scope' = [scope EXCEPT
                            !.phase = "drop", !.panicked = panics,
                            !.items = [i \in 1..Len(scope.destructors) |->
                                          l.reg[scope.destructors[i].registry_id]]]
           /\ refs' = {h \in refs : h.drop_unref}
           /\ last' = [last EXCEPT !.op = "scope_body", !.lua = scope.lua,
                                   !.res = "ok", !.err = "",
                                   !.info = Len(scope.destructors),
                                   !.arg = IF panics THEN "panic" ELSE "", !.mixed = FALSE]
           /\ UNCHANGED <<threads, budget, L, extra, keys, call>>

\* Drop for Scope runs the next destructor of the list
ScopeInvalidate ==
    LET r == scope.lua.main_state
        d == scope.destructors[Scope_drain(scope)]
        o == run_destructor(L[r], d)
    IN /\ scope.phase = "drop"
       /\ last.res # "abort"
       /\ Scope_drop(scope) = "invalidate"
       /\ L' = [L EXCEPT ![r] = o.L]
       /\ scope' = Scope_drained(scope, d)
       /\ last' = [last EXCEPT !.op = "scope_invalidate", !.res = o.res, !.err = o.err]
       /\ UNCHANGED <<threads, budget, extra, refs, keys, call>>

\* Drop for Scope drops the next payload.  A panic while another one unwinds
\* (that of the body or of an earlier payload) aborts the process.
ScopeDropPayload ==
    LET dp == Head(scope.to_drop)
    IN /\ scope.phase = "drop"
       /\ last.res # "abort"
       /\ Scope_drop(scope) = "drop_payload"
       /\ scope' = [scope EXCEPT !.to_drop = Tail(@), !.dropped = @ + 1,
                                 !.panicked = @ \/ dp]
       /\ last' = [last EXCEPT !.op = "scope_drop_payload",
                               !.res = IF dp /\ scope.panicked THEN "abort" ELSE "ok",
                               !.err = IF dp /\ scope.panicked THEN "panic while panicking"
                                       ELSE ""]
       /\ UNCHANGED <<threads, budget, L, extra, refs, keys, call>>

\* Drop for Scope is over and Lua::scope returns, or goes on unwinding
ScopeExit ==
    LET r == scope.lua.main_state
        l == Collect(L[r])
    IN /\ scope.phase = "drop"
       /\ last.res # "abort"
       /\ Scope_drop(scope) = "done"
       /\ L' = [L EXCEPT ![r] = Compact(l)]
       /\ refs' = {RenRef(l, r, g) : g \in refs}
       /\ scope' = NoScope
       /\ last' = [last EXCEPT !.op = "scope",
                               !.res = IF scope.panicked THEN "panic" ELSE "ok",
                               !.err = "", !.info = Len(scope.destructors)]
       /\ UNCHANGED <<threads, budget, extra, keys, call>>

\* The call chains interpreter code puts around the call of a function:
\* interpreter functions, pcall and xpcall, outermost first
RECURSIVE Chains(_)
Chains(n) ==
    IF n = 0 THEN {<<>>}
    ELSE Chains(n - 1) \cup
         {Append(c, k) : c \in {d \in Chains(n - 1) : Len(d) = n - 1},
                         k \in {"lua", "pcall", "xpcall"}}
FramesOf(l, chain) ==
    [i \in 1..Len(chain) |->
        IF chain[i] = "lua" THEN LuaFrame ELSE ProtectedFrame(l, chain[i])]
Protected(chain) == Cardinality({i \in 1..Len(chain) : chain[i] # "lua"})
ArgLists == {<<>>, <<Integer(7)>>, <<Integer(7), Boolean(TRUE)>>}

\* The host calls a function it holds a handle of, directly or through
\* interpreter code that calls it inside a chain of at most n frames.  arg
\* tells how the call the host made just before, if any, ended.
HostCallFunction(lua, n, arglists) ==
    \E h \in refs, chain \in Chains(n), args \in arglists :
        LET l == L[lua.main_state]
        IN /\ Running
           /\ h.lua.main_state = lua.main_state
           /\ h.pinned.ty = "function"
           /\ l.heap[h.pinned.v].code = "callback_call_impl"
           /\ call' = [NoCall EXCEPT !.phase = "run", !.lua = lua,
                           !.frames = Append(FramesOf(l, chain),
                                             CallbackFrame(h.pinned, args))]
           /\ last' = [n |-> last.n + 1, op |-> "call_function", lua |-> lua,
                       res |-> "ok", err |-> "", info |-> Protected(chain),
                       arg |-> IF last.op # "call" THEN ""
                               ELSE IF last.res = "ok" THEN "after ok" ELSE "after err",
                       mixed |-> FALSE]
           /\ UNCHANGED <<threads, budget, L, extra, refs, keys, scope>>

\* The keys interpreter code indexes a userdata with, by name
IndexKeys == {"get", "7", "nil"}
KeyOf(name) ==
    CASE name = "get" -> Str("get")
      [] name = "7" -> Integer(7)
      [] OTHER -> Nil

\* Interpreter code indexes a userdata the host holds: ud[key].  The call
\* is recorded as an invocation: the values it left and their count, and
\* what the custom __index was handed.
HostIndex(lua) ==
    \E h \in refs, name \in IndexKeys :
        /\ Running
        /\ h.lua.main_state = lua.main_state
        /\ h.pinned.ty = "userdata"
        /\ \E r \in {lua.main_state} :
           \E x \in {lua_index(EphemeralLua(r), Entry(lua, 0), h.pinned, KeyOf(name))} :
           /\ L' = [L EXCEPT ![r] = [x.o.L EXCEPT !.stack = L[r].stack]]
           /\ call' = [NoCall EXCEPT !.inv =
                          [NoInv EXCEPT !.fn = h.pinned, !.entered = x.args # <<>>,
                                        !.func = L[r].heap[h.pinned.v].data,
                                        !.nargs = 2, !.args = x.args,
                                        !.stack = x.o.L.stack, !.nresults = x.n,
                                        !.err = x.o.err]]
           /\ last' = [n |-> last.n + 1, op |-> "index", lua |-> lua, res |-> x.o.res,
                       err |-> x.o.err, info |-> L[r].heap[h.pinned.v].data,
                       arg |-> name, mixed |-> FALSE]
           /\ UNCHANGED <<threads, budget, extra, refs, keys, scope>>

Pop(frames) == SubSeq(frames, 1, Len(frames) - 1)

\* The interpreter calls the C closure of the top frame: callback_call_impl
\* runs, under callback_error, up to the return of the host closure or up to
\* the nested call its body makes (of the same function, inside a chain)
CallInvoke ==
    \E chain \in Chains(MaxFrames), base \in {"ok", "err", "panic"} :
      /\ call.phase = "run"
      /\ call.sig = "none"
      /\ call.frames # <<>>
      /\ call.frames[Len(call.frames)].kind = "callback"
      /\ call.frames[Len(call.frames)].pc = "invoke"
      /\ \E c \in {callback_call_impl(EphemeralLua(call.lua.main_state),
                    Start([L[call.lua.main_state] EXCEPT
                                !.stack = call.frames[Len(call.frames)].args],
                          extra[call.lua.main_state].registered_userdata, 0),
                    call.frames[Len(call.frames)].fn)} :
        LET r == call.lua.main_state
            lua == EphemeralLua(r)
            fr == call.frames[Len(call.frames)]
            enters == Ok(c.o) /\ try_borrow_mut(call.frames, c.func)
            nests == /\ enters
                     /\ BodyOf(c.func) = "reenter"
                     /\ Cardinality(Entered(call.frames)) + 1 < MaxDepth
            body == IF ~enters THEN "none"
                    ELSE IF BodyOf(c.func) = "reenter"
                    THEN (IF nests THEN "nested" ELSE base)
                    ELSE BodyOf(c.func)
            ret == IF body = "ok" THEN callback_call_return(lua, c.o, ResultsOf(c.args))
                   ELSE [o |-> c.o, nresults |-> 0]
            done == ret.o
            e == CASE ~Ok(c.o) -> c.o.err
                   [] ~enters -> "RecursiveMutCallback"
                   [] body = "err" -> "ExternalError"
                   [] body = "panic" -> "panic"
                   [] OTHER -> ""
        IN /\ nests \/ chain = <<>>
           /\ (enters /\ BodyOf(c.func) = "reenter" /\ ~nests) \/ base = "ok"
           /\ L' = [L EXCEPT ![r] = [done.L EXCEPT !.stack = L[r].stack]]
           /\ call' = [call EXCEPT
                 !.frames = IF body = "nested"
                            THEN Append(Pop(@), [fr EXCEPT !.pc = "body", !.func = c.func])
                                 \o FramesOf(L[r], chain)
                                 \o <<CallbackFrame(fr.fn, fr.args)>>
                            ELSE Pop(@),
                 !.sig = callback_error(callback_call_result(c.o, enters, body)),
                 !.err = e,
                 !.panicked = @ \/ body = "panic",
                 !.inv = [fn |-> fr.fn,
                          destructed |-> L[r].heap[fr.fn.v].upv = <<Nil>>,
                          active |-> \E i \in Entered(call.frames) :
                                        Inner(call.frames[i].func) = Inner(c.func),
                          entered |-> enters,
                          events |-> IF enters THEN Append(c.events, "invoke") ELSE c.events,
                          err |-> e, nargs |-> Len(fr.args), left |-> Top(c.o.L),
                          func |-> c.func, args |-> c.args,
                          results |-> IF body = "ok" THEN ResultsOf(c.args) ELSE <<>>,
                          stack |-> IF body = "ok" THEN done.L.stack ELSE <<>>,
                          nresults |-> ret.nresults]]
           /\ UNCHANGED <<threads, budget, extra, refs, keys, last, scope>>

\* An error or a wrapped panic leaves the top frame: a protected call that
\* catches it returns to its caller, which runs on; any other frame is left
\* (a host closure whose nested call failed lets the error or the panic
\* through, and callback_error raises it again)
CallUnwind ==
    LET fr == call.frames[Len(call.frames)]
    IN /\ call.phase = "run"
       /\ call.sig # "none"
       /\ call.frames # <<>>
       /\ call' = IF fr.kind \in {"pcall", "xpcall"} /\ Catches(fr.handler, call.sig)
                  THEN [call EXCEPT !.frames = Pop(@), !.sig = "none",
                                    !.caught = @ \/ call.sig = "panic"]
                  ELSE [call EXCEPT !.frames = Pop(@)]
       /\ UNCHANGED <<threads, budget, L, extra, refs, keys, last, scope>>

\* The top frame returns to its caller
CallReturn ==
    LET fr == call.frames[Len(call.frames)]
    IN /\ call.phase = "run"
       /\ call.sig = "none"
       /\ call.frames # <<>>
       /\ ~(fr.kind = "callback" /\ fr.pc = "invoke")
       /\ call' = [call EXCEPT !.frames = Pop(@)]
       /\ UNCHANGED <<threads, budget, L, extra, refs, keys, last, scope>>

\* The call is back at the host: a result, an Err, or the panic resumed
CallEnd ==
    /\ call.phase = "run"
    /\ call.frames = <<>>
    /\ call' = NoCall
    /\ last' = [last EXCEPT !.op = "call",
                            !.res = CASE call.sig = "panic" -> "panic"
                                      [] call.sig = "error" -> "err"
                                      [] OTHER -> "ok",
                            !.err = IF call.sig = "none" THEN "" ELSE call.err,
                            !.arg = IF call.caught THEN "caught" ELSE ""]
    /\ UNCHANGED <<threads, budget, L, extra, refs, keys, scope>>

\* The argument lists of at most n values a caller puts on the stack
RECURSIVE ArgSeqs(_)
ArgSeqs(n) ==
    IF n = 0 THEN {<<>>}
    ELSE ArgSeqs(n - 1) \cup
         {Append(q, a) : q \in {p \in ArgSeqs(n - 1) : Len(p) = n - 1},
                         a \in {Integer(7), Boolean(TRUE), Number(3)}}

\* The instances the host works through: root 1 and an ephemeral instance of
\* it, and a second root whose handles and keys meet the first
Main == RootLua(1)
Other == RootLua(2)

\* The typed API, through root 1 and an ephemeral instance of it
Next ==
    \/ Budget(MaxOps) /\ HostLoad(Main)
    \/ Budget(MaxOps) /\ HostCreateString(Main)
    \/ Budget(MaxOps) /\ HostCreateTable(Main)
    \/ Budget(MaxOps) /\ HostCreateTableFrom(Main)
    \/ Budget(MaxOps) /\ HostCreateFunction(Main, {1})
    \/ Budget(MaxOps) /\ HostCreateThread(Main)
    \/ Budget(MaxOps) /\ HostCreateUserdata(Main)
    \/ Budget(MaxOps) /\ HostGlobals(Main)
    \/ Budget(MaxOps) /\ HostCoerce(Main)
    \/ Budget(MaxOps) /\ HostSetNamed(Main)
    \/ Budget(MaxOps) /\ HostUnsetNamed(Main)
    \/ Budget(MaxOps) /\ HostGetNamed(EphemeralLua(1))
    \/ Budget(MaxOps) /\ HostCreateRegistryValue(Main)
    \/ Budget(MaxOps) /\ HostRegistryValue(EphemeralLua(1))
    \/ Budget(MaxOps) /\ HostDropRef

Spec == Init /\ [][Next]_vars

\* RegistryKeys of two roots, used through root 1, an ephemeral instance of
\* it, and root 2
NextKeys ==
    \/ Budget(MaxKeyOps) /\ HostCreateTable(Main)
    \/ Budget(MaxKeyOps) /\ \E lua \in {Main, Other} : HostCreateRegistryValue(lua)
    \/ Budget(MaxKeyOps) /\ \E lua \in {Main, EphemeralLua(1), Other} : HostRegistryValue(lua)
    \/ Budget(MaxKeyOps) /\ \E lua \in {Main, EphemeralLua(1), Other} : HostRemoveRegistryValue(lua)
    \/ Budget(MaxKeyOps) /\ \E lua \in {Main, Other} : HostOwnsRegistryValue(lua)
    \/ Budget(MaxKeyOps) /\ \E lua \in {Main, EphemeralLua(1)} : HostExpireRegistryValues(lua)
    \/ Budget(MaxKeyOps) /\ HostDropKey
    \/ Budget(MaxKeyOps) /\ HostDropRef

SpecKeys == Init /\ [][NextKeys]_vars

\* RegistryKeys of root 1 that are dropped, never removed, and expired
NextExpire ==
    \/ Budget(MaxKeyOps) /\ HostCreateTable(Main)
    \/ Budget(MaxKeyOps) /\ HostCreateRegistryValue(Main)
    \/ Budget(MaxKeyOps) /\ HostRegistryValue(Main)
    \/ Budget(MaxKeyOps) /\ \E lua \in {Main, EphemeralLua(1)} : HostExpireRegistryValues(lua)
    \/ Budget(MaxKeyOps) /\ HostDropKey
    \/ Budget(MaxKeyOps) /\ HostDropRef

SpecExpire == Init /\ [][NextExpire]_vars

\* Handles of two roots handed to the operations of root 1 that push them
NextRoots ==
    \/ Budget(MaxOps) /\ HostCreateTable(Main)
    \/ Budget(MaxOps) /\ HostCreateTable(Other)
    \/ Budget(MaxOps) /\ HostCreateFunction(Main, {1})
    \/ Budget(MaxOps) /\ HostCreateFunction(Other, {1})
    \/ Budget(MaxOps) /\ HostCreateThread(Main)
    \/ Budget(MaxOps) /\ HostCreateTableFrom(Main)
    \/ Budget(MaxOps) /\ HostSetNamed(Main)
    \/ Budget(MaxOps) /\ HostCoerce(Main)
    \/ Budget(MaxOps) /\ HostCreateRegistryValue(Main)
    \/ Budget(MaxOps) /\ HostDropRef

SpecRoots == Init /\ [][NextRoots]_vars

\* A Scope on root 1: items are registered, smuggled into the named registry
\* and called, the scope ends, and what was smuggled is read back and called
NextScope ==
    \/ Budget(MaxScopeOps) /\ ScopeEnter(Main)
    \/ Budget(MaxScopeOps) /\ ScopeCreateFunction({1})
    \/ Budget(MaxScopeOps) /\ ScopeCreateUserdata
    \/ Budget(MaxScopeOps) /\ HostSetNamedHandle(Main)
    \/ Budget(MaxScopeOps) /\ HostGetNamed(Main)
    \/ Budget(MaxScopeOps) /\ HostCallFunction(Main, 0, ArgLists)
    \/ Budget(MaxScopeOps) /\ HostDropRef
    \/ ScopeBodyEnd
    \/ ScopeInvalidate
    \/ ScopeDropPayload
    \/ ScopeExit
    \/ CallInvoke
    \/ CallEnd

SpecScope == Init /\ [][NextScope]_vars

\* The step of ScopeInvalidate as the Scope sees it
ScopeDrain ==
    /\ scope.phase = "drop"
    /\ last.res # "abort"
    /\ Scope_drop(scope) = "invalidate"
    /\ scope' = Scope_drained(scope, scope.destructors[Scope_drain(scope)])

\* The same program where Drop for Scope, once started, runs on: the drain
\* of the destructors is a loop of one thread that nothing suspends
SpecScopeDrop == SpecScope /\ WF_scope(ScopeDrain)

\* Functions of root 1, registered on the instance or through a Scope whose
\* body is running, called through chains of interpreter frames.  A call the
\* interpreter has started runs on until it is back at the host.
NextCall ==
    \/ Budget(MaxCallOps) /\ HostCreateFunction(Main, {3, 4})
    \/ Budget(MaxCallOps) /\ HostCreateFunctionMut(Main, {14})
    \/ Budget(MaxCallOps) /\ ScopeEnter(Main)
    \/ Budget(MaxCallOps) /\ ScopeCreateFunctionMut({14})
    \/ Budget(MaxCallOps) /\ HostCallFunction(Main, MaxFrames, {<<Integer(7)>>})
    \/ Budget(MaxCallOps) /\ HostDropRef
    \/ CallInvoke
    \/ CallUnwind
    \/ CallReturn
    \/ CallEnd

SpecCall ==
    /\ Init
    /\ [][NextCall]_vars
    /\ WF_vars(CallInvoke) /\ WF_vars(CallUnwind)
    /\ WF_vars(CallReturn) /\ WF_vars(CallEnd)

\* The program of root 1 up to its teardown: operations that succeed and
\* fail, a Scope, the handles dropped, then the root (and, inside a callback,
\* its ephemeral instance) dropped
NextTeardown ==
    \/ Budget(MaxTeardownOps) /\ Alive(Main) /\ HostLoad(Main)
    \/ Budget(MaxTeardownOps) /\ Alive(Main) /\ HostCreateTableFrom(Main)
    \/ Budget(MaxTeardownOps) /\ Alive(Main) /\ HostCreateUserdata(Main)
    \/ Budget(MaxTeardownOps) /\ Alive(Main) /\ HostCoerce(Main)
    \/ Budget(MaxTeardownOps) /\ Alive(Main) /\ HostSetNamed(Main)
    \/ Budget(MaxTeardownOps) /\ Alive(Main) /\ HostGetNamed(Main)
    \/ Budget(MaxTeardownOps) /\ Alive(Main) /\ HostCreateRegistryValue(Main)
    \/ Budget(MaxTeardownOps) /\ Alive(Main) /\ ScopeEnter(Main)
    \/ Budget(MaxTeardownOps) /\ ScopeCreateFunction({1})
    \/ Alive(Main) /\ HostDropRef
    \/ ScopeBodyEnd
    \/ ScopeInvalidate
    \/ ScopeDropPayload
    \/ ScopeExit
    \/ HostDropLua(EphemeralLua(1))
    \/ HostDropLua(Main)

\* Lua::new or Lua::new_with_debug
InitTeardown ==
    /\ \E load_debug \in BOOLEAN : L = [r \in Roots |-> create_lua(load_debug)]
    /\ extra = [r \in Roots |-> NewExtraData(r)]
    /\ refs = {}
    /\ keys = {}
    /\ last = NoLast
    /\ scope = NoScope
    /\ call = NoCall
    /\ threads = NoThreads
    /\ budget = NoBudget

SpecTeardown == InitTeardown /\ [][NextTeardown]_vars

\* Source text executed and evaluated on root 1
NextEval ==
    \/ Budget(MaxEvalOps) /\ HostExec(Main)
    \/ Budget(MaxEvalOps) /\ HostEval(Main)

SpecEval == Init /\ [][NextEval]_vars

\* Every path that releases a registry slot, on root 1: handles and keys are
\* made, dropped, removed and expired while a Scope registers items and ends
NextRelease ==
    \/ Budget(MaxReleaseOps) /\ HostCreateTable(Main)
    \/ Budget(MaxReleaseOps) /\ HostCreateRegistryValue(Main)
    \/ Budget(MaxReleaseOps) /\ \E lua \in {Main, EphemeralLua(1)} : HostRemoveRegistryValue(lua)
    \/ Budget(MaxReleaseOps) /\ HostExpireRegistryValues(Main)
    \/ Budget(MaxReleaseOps) /\ HostDropKey
    \/ Budget(MaxReleaseOps) /\ HostDropRef
    \/ Budget(MaxReleaseOps) /\ ScopeEnter(Main)
    \/ Budget(MaxReleaseOps) /\ ScopeCreateFunction({1})
    \/ Budget(MaxReleaseOps) /\ ScopeCreateUserdata
    \/ ScopeBodyEnd
    \/ ScopeInvalidate
    \/ ScopeDropPayload
    \/ ScopeExit

SpecRelease == Init /\ [][NextRelease]_vars

\* RegistryKeys of root 1 are made on the thread that holds the instance and
\* dropped on other threads while expire_registry_values sweeps
NextThreads ==
    \/ Budget(MaxThreadKeys) /\ threads.expire.pc = "idle" /\ HostCreateRegistryValue(Main)
    \/ \E t \in Threads : ThreadDropLock(t)
    \/ \E t \in Threads : ThreadDropPush(t)
    \/ \E t \in Threads : ThreadDropUnlock(t)
    \/ ExpireLock(Main)
    \/ ExpireRead(Main)
    \/ ExpireWrite(Main)
    \/ ExpireUnlock(Main)
    \/ ExpireUnref(Main)
    \/ ExpireReturn(Main)

SpecThreads == Init /\ [][NextThreads]_vars

\* The stack use of operations of root 1, one operation after another
\* Functions of root 1 that return or fail, called by interpreter code with
\* every list of at most MaxArgs arguments
NextArgs ==
    \/ Budget(MaxArgOps) /\ HostCreateFunction(Main, {1, 2})
    \/ Budget(MaxArgOps) /\ HostCallFunction(Main, 0, ArgSeqs(MaxArgs))
    \/ CallInvoke
    \/ CallEnd

SpecArgs == Init /\ [][NextArgs]_vars

\* Host types exposed on root 1, through the root and through an
\* ephemeral instance of it, and on root 2, between other allocations
NextUserdata ==
    \/ Budget(MaxUserdataOps) /\ HostCreateUserdata(Main)
    \/ Budget(MaxUserdataOps) /\ HostCreateUserdata(EphemeralLua(1))
    \/ Budget(MaxUserdataOps) /\ HostCreateUserdata(Other)
    \/ Budget(MaxUserdataOps) /\ HostCreateTable(Main)
    \/ Budget(MaxUserdataOps) /\ HostDropRef

SpecUserdata == Init /\ [][NextUserdata]_vars

\* Userdata of the types with named methods and a custom __index, indexed
\* by interpreter code with the name of a method and with other keys
NextIndex ==
    \/ Budget(MaxIndexOps) /\ HostCreateUserdataOf(Main, {2} \cup IndexTypes)
    \/ Budget(MaxIndexOps) /\ HostIndex(Main)
    \/ Budget(MaxIndexOps) /\ HostDropRef

SpecIndex == Init /\ [][NextIndex]_vars

\* RegistryKeys of root 1 made, dropped and expired before and after the
\* ephemeral instance and the root are dropped
NextStorage ==
    \/ Budget(MaxStorageOps) /\ Alive(Main) /\ HostCreateRegistryValue(Main)
    \/ Budget(MaxStorageOps) /\ Alive(Main) /\ HostExpireRegistryValues(Main)
    \/ Budget(MaxStorageOps) /\ HostDropKey
    \/ Budget(MaxStorageOps) /\ HostDropLua(EphemeralLua(1))
    \/ Budget(MaxStorageOps) /\ HostDropLua(Main)

SpecStorage == Init /\ [][NextStorage]_vars

\* A Scope on root 1 whose body registers closures and userdata, drops the
\* handles it was given and makes tables, which take the free slots
NextPinned ==
    \/ Budget(MaxPinnedOps) /\ ScopeEnter(Main)
    \/ Budget(MaxPinnedOps) /\ ScopeCreateFunction({1, 2})
    \/ Budget(MaxPinnedOps) /\ ScopeCreateFunctionMut({11})
    \/ Budget(MaxPinnedOps) /\ ScopeCreateUserdata
    \/ Budget(MaxPinnedOps) /\ HostCreateTable(Main)
    \/ Budget(MaxPinnedOps) /\ HostDropRef
    \/ ScopeBodyEnd
    \/ ScopeInvalidate
    \/ ScopeDropPayload
    \/ ScopeExit

SpecPinned == Init /\ [][NextPinned]_vars

\* FnMut closures of root 1 that return, fail or call themselves again,
\* registered by the host or through a Scope and called one call after the
\* other, directly or inside a protected call
NextBorrow ==
    \/ Budget(MaxBorrowOps) /\ HostCreateFunctionMut(Main, {11, 12, 14})
    \/ Budget(MaxBorrowOps) /\ ScopeEnter(Main)
    \/ Budget(MaxBorrowOps) /\ ScopeCreateFunctionMut({12})
    \/ Budget(MaxBorrowOps) /\ HostCallFunction(Main, 1, {<<Integer(7)>>})
    \/ CallInvoke
    \/ CallUnwind
    \/ CallReturn
    \/ CallEnd

SpecBorrow == Init /\ [][NextBorrow]_vars

NextBudget ==
    \/ Budget(MaxBudgetOps) /\ BudgetEnter
    \/ BudgetCheck
    \/ BudgetPush
    \/ BudgetUse
    \/ BudgetPop
    \/ BudgetReturn

SpecBudget == Init /\ [][NextBudget]_vars

----------------------------------------------------------------------------
\* Claims

\* The public operations C1 names
ApiOps == {"load", "create_string", "create_table", "create_table_from",
           "create_thread", "create_userdata", "globals", "coerce_string",
           "coerce_integer", "coerce_number", "set_named_registry_value",
           "named_registry_value", "create_registry_value", "registry_value",
           "create_function"}

\* C1: no public operation trips a stack guard, and after every public
\* operation that returns successfully the depth of the instance's
\* interpreter stack equals its depth before the call.
C1_StackDepthUnchanged ==
    [][/\ last'.res # "abort"
       /\ (last'.op \in ApiOps /\ last'.res = "ok") =>
            Top(L'[last'.lua.main_state]) = Top(L[last'.lua.main_state])]_vars

\* C1 witness: create_table_from has returned a table built from two pairs,
\* after a thread was made of a function
C1_Witness ==
    /\ last.op = "create_table_from" /\ last.res = "ok" /\ last.info = 2
    /\ \E h \in refs : h.pinned.ty = "table" /\
          \E e \in L[1].heap[h.pinned.v].tab : e.v.ty = "thread"

\* C4: registry_value and remove_registry_value through any instance of the
\* key's root never fail with MismatchedRegistryKey and succeed (registry_value
\* whenever the conversion the caller asks for accepts the value); through an
\* instance of another root they return MismatchedRegistryKey; neither panics.
C4_KeyOwnership ==
    last.op \in {"registry_value", "remove_registry_value"} =>
        /\ last.res \in {"ok", "err"}
        /\ last.info = last.lua.main_state =>
              /\ last.err # "MismatchedRegistryKey"
              /\ (last.op = "remove_registry_value" \/ last.arg = "ok") => last.res = "ok"
        /\ last.info # last.lua.main_state =>
              last.res = "err" /\ last.err = "MismatchedRegistryKey"

\* C4 witness: an ephemeral instance of root 1 has read back, as a handle,
\* the table a key of root 1 pins, while the host holds a key of root 2
C4_Witness ==
    /\ last.op = "registry_value" /\ last.lua = EphemeralLua(1)
    /\ last.info = 1 /\ last.res = "ok"
    /\ \E h \in refs : h.pinned.ty = "table"
    /\ \E k \in keys : k.key.unref_list = 2

SlotIds(list) == {i \in 1..Len(list) : list[i] # LUA_REFNIL}

\* C6 as amended: expire_registry_values leaves the pending-release list
\* empty and the live registry slots fewer by exactly the number of dropped
\* keys whose value was not nil.
C6_ExpireReleases ==
    [][last'.op = "expire_registry_values" =>
        LET r == last'.lua.main_state
            list == extra[r].registry_unref_list.list
        IN /\ extra'[r].registry_unref_list.list = <<>>
           /\ Cardinality(LiveSlots(L'[r])) =
                Cardinality(LiveSlots(L[r])) - Cardinality(SlotIds(list))]_vars

\* C6 witness: two keys of root 1 were dropped and expire_registry_values has
\* released both their slots
C6_Witness ==
    /\ last.op = "expire_registry_values" /\ last.info = 2
    /\ Cardinality(FreeSlots(L[1])) = 2
    /\ extra[1].registry_unref_list.list = <<>>

\* C6 as the claim states it: the live slots are fewer by exactly the number
\* of keys dropped
C6_Original ==
    [][last'.op = "expire_registry_values" =>
        LET r == last'.lua.main_state
            list == extra[r].registry_unref_list.list
        IN /\ extra'[r].registry_unref_list.list = <<>>
           /\ Cardinality(LiveSlots(L'[r])) = Cardinality(LiveSlots(L[r])) - Len(list)]_vars

\* No item of the scope being dropped is linked
AllUnlinked ==
    \A i \in 1..Len(scope.items) :
        ~Linked(L[scope.lua.main_state], scope.destructors[i], scope.items[i])

\* C2: when Drop for Scope is over (Lua::scope returns, or goes on unwinding
\* a panic), every function and userdata registered through the Scope is
\* invalidated: its slot is released, a function's payload upvalue is nil and
\* a userdata's payload is taken, also when a payload's destructor panicked.
C2_AllInvalidated ==
    (scope.phase = "drop" /\ Scope_drop(scope) = "done" /\ last.res # "abort")
        => /\ scope.i = Len(scope.destructors) + 1
           /\ AllUnlinked

\* C2 witness: a scope with a function and a userdata is over, its body
\* returned and the destructor of one of the two payloads panicked
C2_Witness ==
    /\ scope.phase = "drop" /\ Scope_drop(scope) = "done"
    /\ last.arg = "" /\ last.res = "ok"
    /\ scope.panicked /\ scope.dropped = 2
    /\ {scope.destructors[i].kind : i \in 1..Len(scope.destructors)} =
          {"function", "userdata"}

\* C3: whenever a payload destructor of a scope runs, and from then on until
\* the drop of the scope is over, no item of the scope is linked in the
\* interpreter: every slot is released and every payload detached.
C3_UnlinkBeforeDrop ==
    [][(scope'.dropped > scope.dropped \/ (scope.phase = "drop" /\ scope.dropped > 0))
          => AllUnlinked]_vars

\* C3 witness: of a scope with two items, one payload has been dropped and
\* the other is still to be dropped
C3_Witness ==
    /\ scope.phase = "drop" /\ scope.dropped = 1
    /\ Len(scope.to_drop) = 1 /\ Len(scope.items) = 2

C8_NoReentry ==
    /\ (call.inv.active /\ Inner(call.inv.func) \in FnMutClosures) =>
          call.inv.err = "RecursiveMutCallback" /\ ~call.inv.entered
    /\ \A i, j \in Entered(call.frames) :
          (i # j /\ Inner(call.frames[i].func) \in FnMutClosures) =>
              Inner(call.frames[i].func) # Inner(call.frames[j].func)

\* C8 witness: the body of a closure registered with create_function_mut
\* called its own function inside a pcall, and the nested invocation failed
C8_Witness ==
    /\ call.inv.active /\ call.inv.func = Wrapped(14)
    /\ call.inv.err = "RecursiveMutCallback"
    /\ \E i \in 1..Len(call.frames) : call.frames[i].kind = "pcall"

\* The slot of handle h is allocated and holds the value h pins
Pinned(l, h) == h.registry_id \in LiveSlots(l) /\ l.reg[h.registry_id] = h.pinned
\* The step is the drop of a handle by the host
Dropped == last'.op = "drop_ref" /\ last'.n = last.n + 1

\* C9 as amended: the slot of every handle the host holds is allocated and
\* holds the pinned value; the drop of a handle releases its slot unless a
\* Scope marked the handle, in which case the slot stays allocated, with its
\* value, until Drop for Scope releases it.
C9_SlotLifetime ==
    [][/\ \A h \in refs' : Pinned(L'[h.lua.main_state], h)
       /\ (Dropped /\ last'.arg # "scoped") =>
             last'.info \in FreeSlots(L'[last'.lua.main_state])
       /\ (Dropped /\ last'.arg = "scoped") =>
             /\ last'.info \in LiveSlots(L'[last'.lua.main_state])
             /\ L'[last'.lua.main_state].reg[last'.info].ty \in {"function", "userdata"}
             /\ \E i \in 1..Len(scope'.destructors) :
                   scope'.destructors[i].registry_id = last'.info
       /\ (scope.phase = "drop" /\ scope'.phase = "none") =>
             \A i \in 1..Len(scope.destructors) :
                 scope.destructors[i].registry_id \in FreeSlots(L'[scope.lua.main_state])]_vars

\* C9 witness: inside the body of a scope the host dropped the handle of a
\* scoped item, whose slot is still allocated
C9_Witness ==
    /\ last.op = "drop_ref" /\ last.arg = "scoped" /\ scope.phase = "body"
    /\ last.info \in LiveSlots(L[1])

\* C9 as the claim states it: the slot of every handle is allocated and holds
\* the pinned value, and the drop of a handle releases its slot
C9_Original ==
    [][/\ \A h \in refs' : Pinned(L'[h.lua.main_state], h)
       /\ Dropped => last'.info \in FreeSlots(L'[last'.lua.main_state])]_vars

\* C10: every callback invocation checks the sentinel first, before the
\* payload is read; an invocation of an invalidated closure does nothing
\* else: it fails with CallbackDestructed, the host closure is not entered
\* and every argument is still on the stack.
C10_SentinelFirst ==
    /\ call.inv.events # <<>> => call.inv.events[1] = "check"
    /\ call.inv.destructed =>
          /\ call.inv.err = "CallbackDestructed"
          /\ ~call.inv.entered
          /\ call.inv.left = call.inv.nargs
          /\ call.inv.events = <<"check">>

\* C10 witness: a function smuggled out of a scope was called with two
\* arguments after the scope and failed with CallbackDestructed
C10_Witness ==
    /\ call.inv.destructed /\ call.inv.nargs = 2
    /\ call.inv.err = "CallbackDestructed" /\ scope.phase = "none"

\* A step of callback_call_impl that ends in an Err
Raised ==
    /\ call.phase = "run" /\ call.sig = "none" /\ call.frames # <<>>
    /\ call.frames[Len(call.frames)].kind = "callback"
    /\ call.frames[Len(call.frames)].pc = "invoke"
    /\ call'.inv.err \notin {"", "panic"}

\* C11: an Err of a host function (of the closure, or of callback_call_impl
\* before it) is raised as an interpreter error; the error stays an error
\* while it leaves frames that do not catch, every pcall or xpcall frame it
\* reaches catches it, and with no such frame it is the Err the host's call
\* returns; it never becomes a panic and never vanishes, and it gets to one
\* of the two ends.
C11_ErrRaised ==
    /\ [][Raised => (call'.sig = "error" /\ call'.err = call'.inv.err)]_vars
    /\ [][(call.phase = "run" /\ call.sig = "error") =>
            /\ call'.panicked = call.panicked
            /\ IF call.frames = <<>>
               THEN call'.phase = "none" /\ last'.op = "call"
                    /\ last'.res = "err" /\ last'.err = call.err
               ELSE IF call.frames[Len(call.frames)].kind \in {"pcall", "xpcall"}
               THEN call'.sig = "none" /\ call'.phase = "run"
               ELSE call'.sig = "error" /\ call'.err = call.err]_vars
    /\ (call.sig = "error") ~> (call.sig = "none")

\* C11 witness: the Err of a host closure called inside a pcall was caught
\* there, and the interpreter code around it runs on
C11_Witness ==
    /\ call.phase = "run" /\ call.sig = "none" /\ call.frames # <<>>
    /\ call.inv.err = "ExternalError" /\ call.inv.entered

\* What named_registry_value("x") through instance lua returns from
\* interpreter state l
NamedGet(lua, l) ==
    named_registry_value(lua, Start(l, extra[lua.main_state].registered_userdata, 0),
                         "x", "ok")
\* The identity of a host value: a primitive's value, the object of a handle
Ident(value) == IF IsHandle(value) THEN value.lref.pinned.v ELSE value.v
\* What a host value shows of itself whatever the addresses of the objects
Shown(l, value) ==
    IF IsHandle(value) /\ value.lref.pinned.v \in 1..MaxObjs
    THEN [ty |-> value.ty, kind |-> l.heap[value.lref.pinned.v].kind,
          code |-> l.heap[value.lref.pinned.v].code,
          data |-> l.heap[value.lref.pinned.v].data,
          size |-> Cardinality(l.heap[value.lref.pinned.v].tab)]
    ELSE [ty |-> value.ty, kind |-> "", code |-> "", data |-> value.v, size |-> 0]
\* The instances that share the root of lua
Sharing(lua) == {RootLua(lua.main_state), EphemeralLua(lua.main_state)}

\* C12: once set_named_registry_value("x", v) has returned Ok through one
\* instance, named_registry_value("x") through every instance of the same
\* root returns v (the same primitive, or a handle of the same object); once
\* unset_named_registry_value("x") has, it returns nil; and no call that is
\* not a set or unset of the name changes what it returns.
C12_NamedRoundTrip ==
    [][\A lua \in Sharing(Main) :
         \E g \in {NamedGet(lua, L[1])}, h \in {NamedGet(lua, L'[1])} :
           /\ (last'.n = last.n + 1 /\ last'.op = "set_named_registry_value"
               /\ last'.res = "ok") =>
                 /\ Ok(h)
                 /\ h.val.ty = last'.arg
                 /\ Ident(h.val) = last'.info
           /\ (last'.n = last.n + 1 /\ last'.op = "unset_named_registry_value"
               /\ last'.res = "ok") =>
                 Ok(h) /\ h.val = Prim(Nil)
           /\ (last'.op \notin {"set_named_registry_value",
                                "unset_named_registry_value"}) =>
                 /\ Ok(g) /\ Ok(h)
                 /\ Shown(L'[1], h.val) = Shown(L[1], g.val)]_vars

\* C12 witness: a table was set through root 1, and the ephemeral instance
\* of root 1 has read the name and holds the handle it got
C12_Witness ==
    /\ last.op = "named_registry_value" /\ last.lua = EphemeralLua(1) /\ last.res = "ok"
    /\ last.arg = "ok"
    /\ NamedGet(Main, L[1]).val.ty = "table"
    /\ \E h \in refs : h.pinned = NamedGet(Main, L[1]).val.lref.pinned

KeyCall(op) == last'.n = last.n + 1 /\ last'.op = op

\* C14: owns_registry_value is true of a key exactly on the instances that
\* share the root of the instance that created it (fixed when
\* create_registry_value returns the key, and asked of every instance), it
\* answers so when called, and registry_value and remove_registry_value
\* return MismatchedRegistryKey exactly for the keys it is false of.
C14_OwnsAgrees ==
    [][/\ (KeyCall("create_registry_value") /\ last'.res = "ok") =>
             /\ keys' # keys
             /\ \A k \in keys' \ keys : \A lua \in Instances :
                   owns_registry_value(lua, k.key) <=>
                       lua.main_state = last'.lua.main_state
       /\ KeyCall("owns_registry_value") =>
             \A k \in keys : k.key.unref_list = last'.info =>
                 (last'.res = "true" <=> owns_registry_value(last'.lua, k.key))
       /\ (KeyCall("registry_value") \/ KeyCall("remove_registry_value")) =>
             \A k \in keys : k.key.unref_list = last'.info =>
                 (last'.err = "MismatchedRegistryKey"
                     <=> ~owns_registry_value(last'.lua, k.key))]_vars

\* C14 witness: root 1 was asked about a key of root 2 and disowned it
C14_Witness ==
    /\ last.op = "owns_registry_value" /\ last.res = "false" /\ last.lua = Main
    /\ \E k \in keys : k.key.unref_list = 2 /\ last.info = 2

\* The tokens of toks that count in the global x when they are run
Counting(toks) == Cardinality({i \in DOMAIN toks : toks[i] \in {"x=x+1", "bump()", "fail()"}})

\* C15: eval loads "return " + source first and the source unchanged only
\* when that load fails, the first text that loads being the one that is
\* run; `return 1+1` so yields 2 through the second load; when neither
\* loads, the error returned is that of loading the source unchanged; an
\* error raised by the chunk is returned without a second load; and no
\* statement of the source is run more than once.
C15_EvalFallback ==
    [][KeyCall("eval") =>
        /\ \A name \in {"none", "nul"} :
             \E src \in {Tokens(last'.arg)} :
             \E e \in {eval(last'.lua, Entry(last'.lua, 0), name, last'.arg)},
                first \in {load_source(last'.lua, Entry(last'.lua, 0), name, Prefixed(src))},
                plain \in {load_source(last'.lua, Entry(last'.lua, 0), name, src)} :
                /\ e.loads = IF Ok(first) THEN <<Prefixed(src)>> ELSE <<Prefixed(src), src>>
                /\ e.ran = IF Ok(first) THEN <<Prefixed(src)>>
                           ELSE IF Ok(plain) THEN <<src>> ELSE <<>>
                /\ (~Ok(first) /\ ~Ok(plain)) =>
                      e.o.res = "err" /\ e.o.err = plain.err /\ e.o.val = plain.val
                /\ (Ok(first) /\ Run(L[1], Prefixed(src)).raised) =>
                      e.o.res = "err" /\ e.o.err = "RuntimeError"
                /\ (name = "none" /\ last'.arg = "return 1+1") =>
                      /\ ~Ok(first) /\ Ok(plain)
                      /\ Ok(e.o) /\ e.o.val = Prim(Integer(2))
        /\ \E name \in {"none", "nul"} :
             \E e \in {eval(last'.lua, Entry(last'.lua, 0), name, last'.arg)} :
                last'.res = e.o.res /\ last'.err = e.o.err /\ last'.info = IntOf(e.o)
        /\ last'.err = "SyntaxError" => last'.info = ErrAt(Tokens(last'.arg))
        /\ XOf(L'[1]) - XOf(L[1]) <= Counting(Tokens(last'.arg))]_vars

\* C15 witness: eval of `return 1+1` has returned 2
C15_Witness ==
    last.op = "eval" /\ last.arg = "return 1+1" /\ last.res = "ok" /\ last.info = 2

\* How many holders will release slot id of root r: the handles that release
\* on drop, the keys the host holds, the ids on the pending-release list and
\* the destructors of the scope that have not run
Releasers(r, id, hs, ks, ex, sc) ==
    Cardinality({h \in hs : h.lua.main_state = r /\ h.drop_unref /\ h.registry_id = id})
    + Cardinality({k \in ks : k.key.unref_list = r /\ k.key.drop_unref
                                /\ k.key.registry_id = id})
    + Cardinality({i \in DOMAIN ex[r].registry_unref_list.list :
                      ex[r].registry_unref_list.list[i] = id})
    + Cardinality({i \in DOMAIN sc.destructors :
                      sc.lua.main_state = r /\ i >= sc.i
                      /\ sc.destructors[i].registry_id = id})

\* The free list of the registry is a chain of released slots that ends: a
\* slot released twice makes it a cycle
RECURSIVE FreeListEnds(_, _, _)
FreeListEnds(l, head, fuel) ==
    IF head = 0 THEN TRUE
    ELSE IF fuel = 0 \/ head \notin 3..Len(l.reg) THEN FALSE
    ELSE FreeListEnds(l, l.reg[head].v, fuel - 1)

\* C16: over the drop of a LuaRef, the exit of a Scope, remove_registry_value
\* and expire_registry_values together, a slot is released at most once for
\* each time it is allocated: every slot has at most one holder that will
\* release it and such a slot is allocated, a step releases only slots whose
\* holder it uses up, and the free list never holds a slot twice.
C16_ReleasedOnce ==
    [][\A r \in Roots :
        /\ FreeListEnds(L'[r], L'[r].free, Len(L'[r].reg))
        /\ \A id \in 3..Len(L'[r].reg) :
              \E n \in {Releasers(r, id, refs', keys', extra', scope')} :
                 /\ n <= 1
                 /\ n = 1 => id \in LiveSlots(L'[r])
        /\ \A id \in LiveSlots(L[r]) \cap FreeSlots(L'[r]) :
              /\ Releasers(r, id, refs, keys, extra, scope) = 1
              /\ Releasers(r, id, refs', keys', extra', scope') = 0]_vars

\* C16 witness: a Scope with an item has ended, two slots are on the free
\* list, and the host holds no handle and no key
C16_Witness ==
    /\ last.op = "scope" /\ last.info >= 1
    /\ scope.phase = "none"
    /\ Cardinality(FreeSlots(L[1])) >= 2
    /\ keys = {} /\ refs = {}

\* The ids the running sweep has taken and not yet released
Batch == IF threads.expire.pc = "read" THEN <<>> ELSE threads.expire.unref_list

\* C17: with keys dropped on other threads while expire_registry_values
\* sweeps, the ids pushed are, in order, the ids sweeps have released, then
\* the ids the running sweep has taken and not yet released, then the ids
\* on the list for the next sweep: none is lost and none is released twice,
\* and an id a sweep releases names a slot that is allocated until then.
C17_SweepExactlyOnce ==
    [][/\ threads'.pushed = threads'.released \o Batch' \o extra'[1].registry_unref_list.list
       /\ threads'.released # threads.released =>
             \E id \in {Head(threads.expire.unref_list)} :
                id # LUA_REFNIL =>
                    id \in LiveSlots(L[1]) /\ id \in FreeSlots(L'[1])]_vars

\* C17 witness: a sweep has released an id and holds another to release,
\* while a key dropped on another thread since the sweep took its batch is
\* on the list
C17_Witness ==
    /\ threads.expire.pc = "unref"
    /\ threads.released # <<>>
    /\ threads.expire.unref_list # <<>>
    /\ extra[1].registry_unref_list.list # <<>>

\* C18 as stated: every slot an operation pushes or uses (one above the top
\* for pop_ref and a registry release, two for push_value and pop_value) was
\* reserved by a check_stack the operation made before.
C18_Original == ~budget.over

\* Iterators whose second pair has a key or a value that fails to convert
PartwayFailing ==
    {<<[k |-> Prim(Integer(7)), v |-> Prim(Boolean(TRUE))], p>> :
        p \in {[k |-> ToLuaErr, v |-> Prim(Boolean(TRUE))],
               [k |-> Prim(Integer(7)), v |-> ToLuaErr]}}

C20_RemoveReleasesNow ==
    [][/\ (KeyCall("remove_registry_value") /\ last'.res = "ok") =>
             \E r \in {last'.lua.main_state} :
                /\ \A k \in keys \ keys' :
                      k.key.registry_id # LUA_REFNIL =>
                          /\ k.key.registry_id \in LiveSlots(L[r])
                          /\ k.key.registry_id \in FreeSlots(L'[r])
                /\ extra' = extra
       /\ KeyCall("expire_registry_values") =>
             \E r \in {last'.lua.main_state} :
             \E ids \in {{extra[r].registry_unref_list.list[i] :
                             i \in SlotIds(extra[r].registry_unref_list.list)}} :
                /\ ids \subseteq LiveSlots(L[r])
                /\ FreeSlots(L'[r]) = FreeSlots(L[r]) \cup ids]_vars

\* C20 witness: remove_registry_value has released the slot of its key while
\* the id of another key, dropped before, waits on the list
C20_Witness ==
    /\ last.op = "remove_registry_value" /\ last.res = "ok"
    /\ FreeSlots(L[1]) # {}
    /\ Len(extra[1].registry_unref_list.list) = 1
    /\ extra[1].registry_unref_list.list[1] \in LiveSlots(L[1])

\* The slot ids the destructors of the scope captured, in the order in which
\* the items were registered
Registered == [i \in 1..Len(scope.destructors) |-> scope.destructors[i].registry_id]

\* C21: once the body of a scope has ended, by returning or by panicking,
\* Drop for Scope runs every invalidation action: each runs exactly once and
\* they run in the order in which the items were registered.  The actions
\* run so far are always the first ones registered, in order; all of them
\* have run before the first payload is dropped and when Lua::scope is left.
C21_InvalidationOrder ==
    /\ [][/\ scope'.ran # scope.ran /\ scope'.phase # "none"
             => /\ Len(scope.ran) < Len(Registered)
                /\ scope'.ran = Append(scope.ran, Registered[Len(scope.ran) + 1])
          /\ (scope'.dropped > scope.dropped \/ (scope.phase = "drop" /\ scope'.phase = "none"))
             => scope.ran = Registered]_vars
    /\ \A panics \in BOOLEAN :
          (scope.phase = "drop" /\ scope.panicked = panics /\ scope.ran = <<>>)
             ~> (scope.phase = "drop" /\ scope.ran = Registered)

\* C21 witness: the body of a scope with two items panicked and both
\* invalidation actions have run, the first registered first
C21_Witness ==
    /\ scope.phase = "drop" /\ last.arg = "panic"
    /\ Len(scope.destructors) = 2
    /\ scope.ran = Registered
    /\ scope.ran[1] # scope.ran[2]

\* The interpreter value push_value pushes for a host value without a handle
Pushed(value) == [ty |-> value.ty, v |-> value.v]

\* C22: a callback invoked with n arguments on its stack hands the host
\* closure exactly those n values, in left-to-right call order, and its
\* stack is empty when the closure runs; when the closure returns Ok(results)
\* the stack holds exactly the results in the order returned, and the count
\* callback_call_impl reports is their number.
C22_ArgsAndResults ==
    [][(/\ call.phase = "run" /\ call.sig = "none" /\ call.frames # <<>>
        /\ call.frames[Len(call.frames)].kind = "callback"
        /\ call.frames[Len(call.frames)].pc = "invoke"
        /\ call' # call
        /\ call'.inv.err # "CallbackDestructed")
          => LET fr == call.frames[Len(call.frames)]
                 inv == call'.inv
             IN /\ Len(inv.args) = Len(fr.args)
                /\ \A i \in 1..Len(fr.args) : Pushed(inv.args[i]) = fr.args[i]
                /\ inv.left = 0
                /\ (call'.sig = "none" /\ BodyOf(inv.func) = "ok")
                      => /\ inv.results = ResultsOf(inv.args)
                         /\ Len(inv.stack) = Len(inv.results)
                         /\ \A i \in 1..Len(inv.results) :
                               inv.stack[i] = Pushed(inv.results[i])
                         /\ inv.nresults = Len(inv.results)]_vars

\* C22 witness: a callback called with three arguments that are not all the
\* same has handed them to its closure, which returned two of them, and has
\* returned with both on its stack
C22_Witness ==
    /\ call.inv.nargs = 3 /\ call.inv.entered /\ call.sig = "none"
    /\ call.inv.args[1] # call.inv.args[3]
    /\ call.inv.nresults = 2
    /\ call.inv.stack = <<Pushed(call.inv.args[3]), Pushed(call.inv.args[2])>>

\* The dispatch tables in the registry of an interpreter state: the slots
\* that hold a table whose __gc is the destructor of a host type
IsMetatable(l, val) ==
    /\ val.ty = "table"
    /\ TabGet(l.heap[val.v].tab, Str("__gc")) = CFn("userdata_destructor")
    /\ TabGet(l.heap[val.v].tab, Str("__metatable")) = Boolean(FALSE)
Metatables(l) == {i \in LiveSlots(l) : IsMetatable(l, l.reg[i])}
\* The dispatch tables in the heap, the metatable of the callbacks apart
MetatableObjs(l) ==
    {i \in 1..MaxObjs : /\ l.heap[i].kind = "table"
                        /\ IsMetatable(l, [ty |-> "table", v |-> i])
                        /\ TabGet(l.named, FunctionMetatableKey) # [ty |-> "table", v |-> i]}
Cached(r) == {T \in TypeIds : extra[r].registered_userdata[T] # 0}
Built(l, kinds) == Cardinality({i \in 1..MaxObjs : l.heap[i].kind \in kinds})

\* C23: a root has at most one dispatch table for each host type.  The
\* tables in its registry are those the cache names, one slot for each
\* cached type, and they are the metatables of the userdata the host holds.
\* The first successful userdata_metatable for a type allocates the slot
\* and records it; a later call returns the recorded slot id and builds and
\* allocates nothing; an entry stays as it is while the root is alive.
C23_OneCachedMetatable ==
    [][\A r \in Roots : Alive(RootLua(r))' =>
          LET cache == extra[r].registered_userdata
              cache2 == extra'[r].registered_userdata
              made == last'.n = last.n + 1 /\ last'.op = "create_userdata"
                      /\ last'.lua.main_state = r
              T == last'.info
          IN /\ Metatables(L'[r]) = {cache2[t] : t \in Cached(r)'}
             /\ \A t, u \in Cached(r)' : t # u => cache2[t] # cache2[u]
             /\ Cardinality(MetatableObjs(L'[r])) = Cardinality(Cached(r)')
             /\ \A h \in refs' :
                   (h.lua.main_state = r /\ h.pinned.ty = "userdata")
                      => L'[r].heap[h.pinned.v].meta =
                            L'[r].reg[cache2[L'[r].heap[h.pinned.v].data]]
             /\ \A t \in Cached(r) : cache2[t] = cache[t]
             /\ \A t \in TypeIds : (cache2[t] # cache[t]) => (made /\ t = T)
             /\ (made /\ last'.res = "ok")
                   => /\ T \in Cached(r)'
                      /\ T \notin Cached(r) => cache2[T] \notin LiveSlots(L[r])
                      /\ T \in Cached(r) =>
                            /\ Built(L'[r], {"table", "function"}) =
                                  Built(L[r], {"table", "function"})
                            /\ Cardinality(LiveSlots(L'[r])) =
                                  Cardinality(LiveSlots(L[r])) + 1
             /\ \A lua \in {RootLua(r), EphemeralLua(r)}, t \in Cached(r) :
                   LET o == Entry(lua, 0)
                       m == userdata_metatable(lua, o, t)
                   IN m = [o EXCEPT !.ref = cache[t]]]_vars

\* C23 witness: a second userdata of a type has been made on root 1 through
\* an ephemeral instance, the first one being still held, and both have the
\* metatable in the slot the cache names
C23_Witness ==
    /\ last.op = "create_userdata" /\ last.res = "ok" /\ last.lua = EphemeralLua(1)
    /\ Cardinality({h \in refs : h.pinned.ty = "userdata"
                                  /\ L[1].heap[h.pinned.v].data = last.info}) = 2
    /\ Cardinality(Metatables(L[1])) = 1
    /\ extra[1].registered_userdata[last.info] \in Metatables(L[1])

\* The callback a function value of interpreter state l was made from
PayloadOf(l, f) ==
    IF f.ty = "function" /\ Len(l.heap[f.v].upv) >= 1 /\ l.heap[f.v].upv[1].ty = "userdata"
    THEN l.heap[l.heap[f.v].upv[1].v].data ELSE 0
\* The entries of a table of interpreter state l, each function by the code
\* of its closure
Shape(l, t) ==
    IF t.ty # "table" THEN {}
    ELSE {<<e.k, e.v.ty, IF e.v.ty = "function" THEN l.heap[e.v.v].code ELSE "">> :
             e \in l.heap[t.v].tab}
\* The metatable userdata_metatable builds for type T from the state of
\* root 1, nothing being cached
FreshMetatable(T) ==
    LET o == [Entry(Main, 0) EXCEPT !.cache = [t \in HostTypes |-> 0]]
        m == userdata_metatable(Main, o, T)
    IN [oom |-> m.L.oom \/ ~Ok(m),
        shape |-> IF Ok(m) /\ ~m.L.oom THEN Shape(m.L, m.L.reg[m.ref]) ELSE {}]

\* C24: the __index installed for a type that declares named methods and a
\* custom __index returns the entry of the methods table for the key when
\* it is not nil, without calling the custom __index, and otherwise what the
\* custom __index returns when called with (object, key); it returns one
\* value either way.  Types that declare the same overloads, enumerated in
\* opposite orders, get metatables with the same entries.
C24_IndexComposes ==
    [][/\ (last'.n = last.n + 1 /\ last'.op = "index")
            => LET l == L[last'.lua.main_state]
                   T == last'.info
                   key == KeyOf(last'.arg)
                   inv == call'.inv
                   mt == l.heap[inv.fn.v].meta
                   handler == TabGet(l.heap[mt.v].tab, Str("__index"))
                   methods == IF handler.ty = "function" /\ Len(l.heap[handler.v].upv) = 2
                              THEN l.heap[handler.v].upv[1] ELSE Nil
                   custom == IF handler.ty = "function" /\ Len(l.heap[handler.v].upv) = 2
                             THEN l.heap[handler.v].upv[2] ELSE Nil
                   entry == IF methods.ty = "table"
                            THEN TabGet(l.heap[methods.v].tab, key) ELSE Nil
               IN /\ last'.res = "ok"
                  /\ inv.nresults = 1 /\ Len(inv.stack) = 1
                  /\ (key = Str("get")) = (entry # Nil)
                  /\ entry # Nil => /\ PayloadOf(l, entry) = MethodCallback(T, "get")
                                    /\ inv.stack = <<entry>>
                                    /\ inv.args = <<>>
                  /\ entry = Nil => /\ Len(inv.args) = 2
                                    /\ IsHandle(inv.args[1])
                                    /\ inv.args[1].lref.pinned = inv.fn
                                    /\ Pushed(inv.args[2]) = key
                                    /\ inv.stack = <<Pushed(ResultsOf(inv.args)[1])>>
                                    /\ PayloadOf(l, custom) = MethodCallback(T, "__index")
       /\ (~FreshMetatable(3).oom /\ ~FreshMetatable(4).oom)
            => FreshMetatable(3).shape = FreshMetatable(4).shape]_vars

\* C24 witness: a userdata of the type whose custom __index is enumerated
\* after its other overload has been indexed with a key that is no method,
\* and the index gave what the custom __index returned
C24_Witness ==
    /\ last.op = "index" /\ last.res = "ok" /\ last.info = 4 /\ last.arg = "7"
    /\ call.inv.entered
    /\ call.inv.stack = <<Integer(7)>>
    /\ call.inv.nresults = 1

\* C25: dropping an ephemeral instance changes nothing: the interpreter
\* state stays open and the ExtraData block allocated.  Dropping the root
\* frees the block and closes the state, once and in this order; a state is
\* open exactly while its block is allocated, and nothing touches either
\* afterwards.
C25_TeardownByRoot ==
    [][\A r \in Roots :
         LET drop == last'.n = last.n + 1 /\ last'.op = "drop_lua"
                     /\ last'.lua.main_state = r
         IN /\ extra[r].teardown \in {<<>>, Teardown}
            /\ (extra[r].teardown = <<>>) = (L[r].reg # <<>>)
            /\ (extra[r].teardown = <<>>) = Alive(RootLua(r))
            /\ (drop /\ last'.lua.ephemeral)
                  => /\ L' = L /\ extra' = extra /\ refs' = refs /\ keys' = keys
                     /\ extra[r].teardown = <<>>
            /\ (drop /\ ~last'.lua.ephemeral)
                  => /\ last'.res = "ok"
                     /\ extra[r].teardown = <<>>
                     /\ extra'[r].teardown = Teardown
                     /\ L'[r] = lua_close(L[r])
            /\ extra'[r].teardown # extra[r].teardown => (drop /\ ~last'.lua.ephemeral)
            /\ extra[r].teardown # <<>> => (extra'[r] = extra[r] /\ L'[r] = L[r])
            /\ Lua_drop(EphemeralLua(r), L[r]).L = L[r]
            /\ Lua_drop(EphemeralLua(r), L[r]).events = <<>>
            /\ Lua_drop_extra(EphemeralLua(r), extra[r]) = extra[r]]_vars

\* C25 witness: root 1 has been dropped while the host held a RegistryKey
\* of it: its block was freed, then its state closed, and root 2 is as it was
C25_Witness ==
    /\ last.op = "drop_lua" /\ ~last.lua.ephemeral /\ last.lua.main_state = 1
    /\ extra[1].teardown = Teardown
    /\ L[1] = lua_close(L[1])
    /\ extra[2].teardown = <<>> /\ L[2].reg # <<>>
    /\ \E k \in keys : TRUE

\* The RegistryKeys the host holds whose unref_list is the list of root r
KeysOf(r) == {k \in keys : k.key.unref_list = r}

\* C26: the pending-release list of a root outlives the ephemeral instances
\* of the root (their drop leaves it as it is) and not the root: when the
\* root is dropped the list becomes None, whatever RegistryKeys of the root
\* the host still holds, and no later drop of such a key brings it back.
C26_ListDiesWithRoot ==
    [][\A r \in Roots :
         LET list == extra[r].registry_unref_list
             drop == last'.n = last.n + 1 /\ last'.op = "drop_lua"
                     /\ last'.lua.main_state = r
         IN /\ (extra[r].teardown = <<>>) = list.some
            /\ ~list.some => list.list = <<>>
            /\ (drop /\ last'.lua.ephemeral)
                  => (list.some /\ extra'[r].registry_unref_list = list)
            /\ (drop /\ ~last'.lua.ephemeral)
                  => /\ list.some
                     /\ ~extra'[r].registry_unref_list.some
                     /\ extra'[r].registry_unref_list.list = <<>>
                     /\ KeysOf(r)' = KeysOf(r)
            /\ ~list.some => extra'[r].registry_unref_list = list]_vars

\* C26 witness: the host held RegistryKeys of root 1 when the root was
\* dropped, has dropped one of them since and still holds another: the list
\* is None
C26_Witness ==
    /\ last.op = "drop_key" /\ last.lua = Main
    /\ extra[1].teardown = Teardown
    /\ ~extra[1].registry_unref_list.some
    /\ extra[1].registry_unref_list.list = <<>>
    /\ KeysOf(1) # {}

\* What a function or userdata of interpreter state l carries: the closure
\* behind a function's first upvalue, the host type of a userdata
ItemOf(l, v) ==
    IF v.ty = "function" THEN PayloadOf(l, v)
    ELSE IF v.ty = "userdata" THEN l.heap[v.v].data
    ELSE 0

\* The destructors of a Scope that Drop for Scope has not run yet
Pending(sc) == {i \in DOMAIN sc.destructors : i >= sc.i}

\* The slot destructor d captured is allocated and holds an item of d's kind
\* with its payload
Held(l, d) ==
    /\ d.registry_id \in LiveSlots(l)
    /\ l.reg[d.registry_id].ty = d.kind
    /\ ItemOf(l, l.reg[d.registry_id]) # 0

\* C27: from the registration of an item through a Scope until its
\* destructor runs, the slot the destructor captured is allocated and holds
\* the item registered, whatever the body does with the handle; no two
\* pending destructors captured the same slot; and the destructor, when it
\* runs, finds the item in the slot and releases it.
C27_ScopedSlotHeld ==
    [][LET l == L[1]
           m == L'[1]
       IN /\ Len(scope'.destructors) = Len(scope.destructors) + 1 =>
                LET d == scope'.destructors[Len(scope'.destructors)]
                IN /\ Held(m, d)
                   /\ ItemOf(m, m.reg[d.registry_id]) =
                         (IF last'.op = "scope_create_function_mut"
                          THEN Wrapped(last'.info) ELSE last'.info)
                   /\ \E h \in refs' \ refs :
                         /\ h.registry_id = d.registry_id
                         /\ ~h.drop_unref
                         /\ h.pinned = m.reg[d.registry_id]
          /\ \A i \in Pending(scope) \cap Pending(scope') :
                LET d == scope.destructors[i]
                IN /\ scope'.destructors[i] = d
                   /\ Held(l, d) /\ Held(m, d)
                   /\ ItemOf(m, m.reg[d.registry_id]) = ItemOf(l, l.reg[d.registry_id])
                   /\ scope.phase = "drop" => m.reg[d.registry_id] = scope.items[i]
                   /\ \A h \in refs' : h.registry_id = d.registry_id =>
                         (~h.drop_unref /\ h.pinned = m.reg[d.registry_id])
          /\ \A i, j \in Pending(scope) :
                i # j => scope.destructors[i].registry_id # scope.destructors[j].registry_id
          /\ (scope.phase = "drop" /\ scope'.i = scope.i + 1) =>
                LET d == scope.destructors[scope.i]
                IN /\ Held(l, d)
                   /\ l.reg[d.registry_id] = scope.items[scope.i]
                   /\ last'.res = "ok"
                   /\ d.registry_id \in FreeSlots(m)
                   /\ ~Attached(m, d.kind, scope.items[scope.i])]_vars

\* C27 witness: the body of a scope registered a closure and a userdata and
\* has dropped both handles; the two slots are still allocated and hold the
\* closure and the userdata
C27_Witness ==
    /\ scope.phase = "body"
    /\ Len(scope.destructors) = 2
    /\ scope.destructors[1].kind # scope.destructors[2].kind
    /\ \A i \in 1..2 : Held(L[1], scope.destructors[i])
    /\ last.op = "drop_ref" /\ last.arg = "scoped"
    /\ refs = {}

\* C28: remove_registry_value on an instance whose root did not create the
\* key returns MismatchedRegistryKey and does so only then; it releases no
\* slot of any root and leaves the pending-release list of the instance it
\* was called on as it is; the key is consumed, and its slot id is appended
\* to the pending-release list of the root that created it.
C28_MismatchedRemoveDefers ==
    [][KeyCall("remove_registry_value") =>
         \E k \in keys :
            LET called == last'.lua.main_state
                owner == k.key.unref_list
            IN /\ keys' = keys \ {k}
               /\ last'.info = owner
               /\ (last'.err = "MismatchedRegistryKey") = (owner # called)
               /\ owner # called =>
                     /\ last'.res = "err"
                     /\ k.key.drop_unref
                     /\ L' = L
                     /\ \A r \in Roots : LiveSlots(L'[r]) = LiveSlots(L[r])
                     /\ extra'[called] = extra[called]
                     /\ k.key.registry_id \in LiveSlots(L'[owner]) \cup {LUA_REFNIL}
                     /\ extra'[owner].registry_unref_list.list =
                           Append(extra[owner].registry_unref_list.list, k.key.registry_id)]_vars

\* C28 witness: an instance of root 1 was given a key of root 2 to remove:
\* the call failed, the slot is allocated in root 2 and its id is pending
\* there, and nothing is pending in root 1
C28_Witness ==
    /\ last.op = "remove_registry_value" /\ last.err = "MismatchedRegistryKey"
    /\ last.lua.main_state = 1 /\ last.info = 2
    /\ extra[1].registry_unref_list.list = <<>>
    /\ Len(extra[2].registry_unref_list.list) = 1
    /\ extra[2].registry_unref_list.list[1] \in LiveSlots(L[2])

\* The step is an invocation of a callback by the interpreter
Invoked ==
    /\ call.phase = "run" /\ call.sig = "none" /\ call.frames # <<>>
    /\ call.frames[Len(call.frames)].kind = "callback"
    /\ call.frames[Len(call.frames)].pc = "invoke"
    /\ call' # call

Complete(l, t, T) ==
    /\ IsMetatable(l, t)
    /\ {e.k : e \in l.heap[t.v].tab} =
          {Str("__gc"), Str("__metatable"), Str("__index")}
             \cup {Str(TypeMetaMethods(T)[i]) : i \in 1..Len(TypeMetaMethods(T))}
    /\ \A i \in 1..Len(TypeMetaMethods(T)) :
          TabGet(l.heap[t.v].tab, Str(TypeMetaMethods(T)[i])).ty = "function"
    /\ TabGet(l.heap[t.v].tab, Str("__index")).ty \in {"table", "function"}

\* C30: a create_userdata that fails, wherever the building of the
\* metatable had got to, records no cache entry and leaves no slot and no
\* dispatch table behind; from the state a failure partway leaves,
\* userdata_metatable for the type builds a complete metatable into a slot
\* that was free, making every protected call of a build; and the metatable
\* a successful first call records is complete.
C30_FailedBuildNotCached ==
    [][\A r \in Roots :
          LET cache == extra[r].registered_userdata
              cache2 == extra'[r].registered_userdata
              made == last'.n = last.n + 1 /\ last'.op = "create_userdata"
                      /\ last'.lua.main_state = r
              T == last'.info
          IN /\ (made /\ last'.res = "err") =>
                   /\ cache2 = cache
                   /\ LiveSlots(L'[r]) = LiveSlots(L[r])
                   /\ Metatables(L'[r]) = Metatables(L[r])
                   /\ Cardinality(MetatableObjs(L'[r])) = Cardinality(MetatableObjs(L[r]))
             /\ (made /\ last'.arg = "partway") => cache[T] = 0
             /\ (made /\ last'.res = "ok" /\ cache[T] = 0) =>
                   /\ cache2[T] \in LiveSlots(L'[r]) \ LiveSlots(L[r])
                   /\ Complete(L'[r], L'[r].reg[cache2[T]], T)
             /\ (last.op = "create_userdata" /\ last.arg = "partway"
                    /\ last.lua.main_state = r) =>
                   LET o == Entry(last.lua, 0)
                       m == userdata_metatable(last.lua, o, last.info)
                   IN /\ cache[last.info] = 0
                      /\ (Ok(m) /\ ~m.L.oom) =>
                            /\ m.ref \notin LiveSlots(L[r])
                            /\ m.ref \in LiveSlots(m.L)
                            /\ m.cache = [cache EXCEPT ![last.info] = m.ref]
                            /\ m.L.stack = o.L.stack
                            /\ Complete(m.L, m.L.reg[m.ref], last.info)
                            /\ m.n >= 7]_vars

\* C30 witness: create_userdata of a type with methods and a custom __index
\* failed on root 1 while its metatable was being built: nothing is cached
\* for the type and the registry holds no dispatch table
C30_Witness ==
    /\ last.op = "create_userdata" /\ last.res = "err" /\ last.arg = "partway"
    /\ last.lua.main_state = 1 /\ last.info = 2
    /\ extra[1].registered_userdata[2] = 0
    /\ Metatables(L[1]) = {}
    /\ MetatableObjs(L[1]) = {}

====
